---- MODULE Spec2Model ----
(***************************************************************************)
(* State-machine model of the timer/session core of the pomodoro app:     *)
(*   - SessionManager (src/src/services/sessionManager.ts)                *)
(*   - the useSessionManager hook, the facade the UI calls                *)
(*     (src/unnamed/part_009)                                             *)
(*   - the useTimerLogic hook (src/src/hooks/useTimerLogic.ts)            *)
(*   - TimerManager and its notifications (src/unnamed/part_013)          *)
(* Time is in milliseconds (Date.now()); durations handed to the          *)
(* managers are in seconds, as in the source.  Calendar dates (the        *)
(* YYYY-MM-DD strings of toISOString().split('T')[0]) are day numbers.    *)
(***************************************************************************)
EXTENDS Integers, Sequences, FiniteSets, TLC

(***************************************************************************)
(* Bounds of the model.                                                    *)
(***************************************************************************)
StepMs == 500
MaxTicks == 4
MaxDocs == 2
MaxQueue == 1
WorkSec == 1
BreakSec == 2
MaxDays == 4
LongBreakSec == 1
LogicDocs == 3
LogicTicks == 8
MaxNotifications == 2
TimerTicks == 4
TimerDocs == 1
ReplayQueue == 2
ReplayDocs == 3
ReplayIds == 1
ReplayMinutes == 2
WriteDocs == 1
MaxWrites == 2
MaxCounted == 2   \* completions counted in the user's totals
MaxHandlers == 2
MaxAhead == 2
InterruptNear == 2
PollTicks == 6
InterruptTicks == 7202
OverlapDocs == 2
MaxReplays == 2

(***************************************************************************)
(* Program constants.                                                      *)
(***************************************************************************)
MsPerSec == 1000
SecPerMin == 60
PollMs == 1000   \* startElapsedTimeTracking: setInterval(..., 1000)
InterruptionTtlMs == 3600000   \* recoverFromInterruption: 1 hour in milliseconds
HoursPerDay == 24
SessionsUntilLongBreak == 2

HoursOfDay == 0 .. (HoursPerDay - 1)
\* Change of the device's UTC offset, in hours, between the same wall-clock
\* time yesterday and now: 0, or +1/-1 across a daylight-saving change.
DstShifts == {-1, 0, 1}

ClockSteps == {StepMs, 2 * StepMs}
Epoch == 2 * StepMs
SessionTypes == {"work", "break", "longBreak"}
StartInputs == {<<"work", WorkSec>>, <<"break", BreakSec>>}

(***************************************************************************)
(* JavaScript values.  undefined is Undefined; an optional object is the  *)
(* empty sequence (null) or a one-element sequence.                        *)
(***************************************************************************)
Undefined == -1
\* Dates are day numbers; the first day leaves room for the two days before it.
FirstDay == 2
ServerTime == 1   \* the value Firestore writes for serverTimestamp(): opaque, set
None == <<>>
Some(x) == <<x>>
Truthy(x) == x # Undefined /\ x # 0
Max(a, b) == IF a >= b THEN a ELSE b
Floor(a, b) == a \div b

VARIABLES
  now,            \* Date.now(), ms
  today,          \* calendar day of new Date()
  activeSession,  \* SessionManager.activeSession
  offlineQueue,   \* SessionManager.offlineQueue (memory)
  storedActive,   \* AsyncStorage 'activeSession'
  storedQueue,    \* AsyncStorage 'offlineQueue'
  sessions,       \* Firestore collection 'sessions', indexed by document id
  userDoc,        \* Firestore document users/<uid>
  hkSession,      \* useSessionManager: activeSession state
  hkPaused,       \* useSessionManager: isPaused state
  lastCall,       \* the last facade/manager call, its inputs and its outcome
  trueRun,        \* history: ms the session of record has really been running
  savedObj,       \* history: the object handed to the last activeSession save
  conv,           \* history: progress of the offline-then-online scenario
  hkElapsed,      \* useSessionManager: elapsedTime state (ms)
  sessionType,    \* useTimerLogic: sessionType state
  cycleSessionsCompleted,  \* useTimerLogic: work sessions since the last long break
  sessionsCompleted,       \* useTimerLogic: work sessions completed
  alertNext,      \* the session type behind the button of the alert on screen
  completing,     \* useTimerLogic: the handleTimerComplete call in flight, with
                  \* the state its closure captured
  timerState,     \* TimerManager.timerState
  storedTimer,    \* AsyncStorage 'timerState' (JSON), None when absent
  notificationIds,  \* TimerManager.notificationIds
  pending,        \* the notifications the platform holds scheduled
  appState,       \* AppState.currentState
  writes,         \* AsyncStorage operations on 'activeSession' issued and not
                  \* yet performed, oldest first: the value to set, None to remove
  tasks,          \* asynchronous calls that wait at an await, with their locals
  storedInterruption   \* AsyncStorage 'lastInterruption'

smVars == <<activeSession, offlineQueue, storedActive, storedQueue, sessions, userDoc>>
hkVars == <<hkSession, hkPaused, hkElapsed>>
coreVars == <<now, today, activeSession, offlineQueue, storedActive, storedQueue,
              sessions, userDoc, hkSession, hkPaused, hkElapsed, lastCall, trueRun,
              savedObj>>
logicVars == <<sessionType, cycleSessionsCompleted, sessionsCompleted,
               alertNext, completing>>
timerVars == <<timerState, storedTimer, notificationIds, pending, appState,
               storedInterruption>>
writesFrame == <<conv, logicVars, timerVars, tasks>>
tasksFrame == <<conv, logicVars, timerVars, writes>>
coreFrame == <<conv, logicVars, timerVars, writes, tasks>>
vars == <<coreVars, conv, logicVars, timerVars, writes, tasks>>

(***************************************************************************)
(* JSON.stringify / JSON.parse of an ActiveSession: a property whose      *)
(* value is undefined is dropped by stringify and reads back as undefined.*)
(***************************************************************************)
ActiveKeys == {"sessionId", "type", "startTime", "plannedDuration",
               "pausedTime", "totalPausedDuration"}

ActiveOptional == {"pausedTime"}

StringifyActive(s) ==
  [k \in {f \in DOMAIN s : ~(f \in ActiveOptional /\ s[f] = Undefined)} |-> s[k]]

\* A parse that loses the pause mark of the snapshot.
ParseActive_LosingPause(j) ==
  [k \in ActiveKeys |-> IF k \in DOMAIN j /\ k # "pausedTime" THEN j[k] ELSE Undefined]

ParseActive(j) ==
  [k \in ActiveKeys |-> IF k \in DOMAIN j THEN j[k] ELSE Undefined]

(***************************************************************************)
(* JSON of a queued SessionData: the optional fields sessionId,           *)
(* actualDuration and endTime are dropped when undefined.  The fields no  *)
(* code of the core reads (userId, startTime, deviceInfo) are left out.   *)
(***************************************************************************)
EntryKeys == {"sessionId", "type", "plannedDuration", "actualDuration",
              "endTime", "completed", "interrupted", "cancelled", "date"}
EntryOptional == {"sessionId", "actualDuration", "endTime"}

StringifyEntry(e) ==
  [k \in {f \in DOMAIN e : ~(f \in EntryOptional /\ e[f] = Undefined)} |-> e[k]]

ParseEntry(j) ==
  [k \in EntryKeys |-> IF k \in DOMAIN j THEN j[k] ELSE Undefined]

StringifyQueue(q) == [i \in 1..Len(q) |-> StringifyEntry(q[i])]
ParseQueue(j) == [i \in 1..Len(j) |-> ParseEntry(j[i])]

(***************************************************************************)
(* SessionManager.getElapsedTime                                           *)
(***************************************************************************)
\* An elapsed time that does not discount the pause in progress.
ElapsedOf_CountingOpenPause(s, t) ==
  Max(0, (t - s.startTime) - s.totalPausedDuration)

ElapsedOf(s, t) ==
  LET totalTime == t - s.startTime
      pauseTime == s.totalPausedDuration
                   + (IF Truthy(s.pausedTime) THEN t - s.pausedTime ELSE 0)
  IN  Max(0, totalTime - pauseTime)

GetElapsedTime ==
  IF activeSession = None THEN 0 ELSE ElapsedOf(activeSession[1], now)

(***************************************************************************)
(* The sessionData object built at the top of startSession.               *)
(***************************************************************************)
NewSessionData(type, duration) ==
  [sessionId |-> Undefined, type |-> type, plannedDuration |-> duration,
   actualDuration |-> Undefined, endTime |-> Undefined,
   completed |-> FALSE, interrupted |-> FALSE, cancelled |-> FALSE,
   date |-> today]

NewActiveSession(id, type, duration) ==
  [sessionId |-> id, type |-> type, startTime |-> now,
   plannedDuration |-> duration, pausedTime |-> Undefined,
   totalPausedDuration |-> 0]

(***************************************************************************)
(* SessionManager.saveActiveSessionToStorage / clearActiveSession /       *)
(* queueSessionForOffline, as the values they leave behind.                *)
(***************************************************************************)
SavedActive(s) == Some(StringifyActive(s))

\* The 'activeSession' key after saveActiveSessionToStorage: setItem may
\* reject (disk = FALSE); the error is caught and logged, the key keeps its
\* old value.
SaveActiveSessionToStorage(s, disk) == IF disk THEN SavedActive(s) ELSE storedActive

QueueSessionForOffline(data) ==
  /\ offlineQueue' = Append(offlineQueue, data)
  /\ storedQueue' = Some(StringifyQueue(offlineQueue'))

ClearActiveSession(disk) ==
  /\ activeSession' = None
  /\ storedActive' = IF disk THEN None ELSE storedActive

(***************************************************************************)
(* SessionManager.startSession.  net: whether addDoc reaches the ledger.  *)
(* The new document's id is the sessionId returned.                        *)
(***************************************************************************)
StartThrows(net) == ~net
StartRet(net) == IF net THEN Len(sessions) + 1 ELSE Undefined

SM_StartSession(type, duration, net, disk) ==
  IF net
  THEN /\ sessions' = Append(sessions, NewSessionData(type, duration))
       /\ activeSession' = Some(NewActiveSession(Len(sessions) + 1, type, duration))
       /\ storedActive' = SaveActiveSessionToStorage(activeSession'[1], disk)
       /\ UNCHANGED <<offlineQueue, storedQueue, userDoc>>
  ELSE /\ QueueSessionForOffline(NewSessionData(type, duration))
       /\ UNCHANGED <<activeSession, storedActive, sessions, userDoc>>

(***************************************************************************)
(* SessionManager.updateUserStreak, the transaction body on the user      *)
(* document.                                                               *)
(***************************************************************************)
YesterdayStr(day, hour, shift) ==
  (day * HoursPerDay + hour - HoursPerDay + shift) \div HoursPerDay

YesterdayStrs(day) ==
  {YesterdayStr(day, hour, shift) : hour \in HoursOfDay, shift \in DstShifts}

UpdateUserStreak(u, day, yesterdayStr) ==
  LET lastActiveDate == u.lastSessionDate
      currentStreak == IF Truthy(u.currentStreak) THEN u.currentStreak ELSE 0
      longestStreak == IF Truthy(u.longestStreak) THEN u.longestStreak ELSE 0
      newCurrentStreak == IF lastActiveDate = yesterdayStr THEN currentStreak + 1 ELSE 1
      newLongestStreak == IF newCurrentStreak > longestStreak
                          THEN newCurrentStreak ELSE longestStreak
  IN  IF lastActiveDate # day
      THEN [u EXCEPT !.currentStreak = newCurrentStreak,
                     !.longestStreak = newLongestStreak,
                     !.lastSessionDate = day]
      ELSE u

(***************************************************************************)
(* SessionManager.completeSession.  net: the finalize transaction         *)
(* commits; streakOk: the separate streak transaction commits.            *)
(***************************************************************************)
CompleteThrows(net) == ~net

SM_CompleteSession(sessionId, actualDuration, wasCompleted, net, streakOk, yesterdayStr, disk) ==
  IF net
  THEN LET counted == wasCompleted /\ activeSession # None
           u1 == IF counted
                 THEN [userDoc EXCEPT
                         !.totalSessions = @ + 1,
                         !.totalFocusMinutes = @ + Floor(actualDuration, SecPerMin)]
                 ELSE userDoc
           streak == wasCompleted /\ activeSession # None
                     /\ activeSession[1].type = "work" /\ streakOk
       IN  /\ sessions' = [sessions EXCEPT ![sessionId] =
                             [@ EXCEPT !.actualDuration = actualDuration,
                                       !.endTime = ServerTime,
                                       !.completed = wasCompleted,
                                       !.interrupted = ~wasCompleted]]
           /\ userDoc' = IF streak THEN UpdateUserStreak(u1, today, yesterdayStr) ELSE u1
           /\ ClearActiveSession(disk)
           /\ UNCHANGED <<offlineQueue, storedQueue>>
  ELSE UNCHANGED smVars

(***************************************************************************)
(* SessionManager.cancelSession                                            *)
(***************************************************************************)
CancelThrows(net) == ~net

\* A cancel that counts the session in the user's totals.
SM_CancelSession_Counting(sessionId, net, disk) ==
  IF net
  THEN /\ sessions' = [sessions EXCEPT ![sessionId] =
                         [@ EXCEPT !.cancelled = TRUE, !.endTime = ServerTime]]
       /\ ClearActiveSession(disk)
       /\ userDoc' = [userDoc EXCEPT !.totalSessions = @ + 1]
       /\ UNCHANGED <<offlineQueue, storedQueue>>
  ELSE UNCHANGED smVars

SM_CancelSession(sessionId, net, disk) ==
  IF net
  THEN /\ sessions' = [sessions EXCEPT ![sessionId] =
                         [@ EXCEPT !.cancelled = TRUE, !.endTime = ServerTime]]
       /\ ClearActiveSession(disk)
       /\ UNCHANGED <<offlineQueue, storedQueue, userDoc>>
  ELSE UNCHANGED smVars

(***************************************************************************)
(* SessionManager.pauseSession / resumeSession                             *)
(***************************************************************************)
SM_PauseSession(disk) ==
  IF activeSession # None /\ ~Truthy(activeSession[1].pausedTime)
  THEN /\ activeSession' = Some([activeSession[1] EXCEPT !.pausedTime = now])
       /\ storedActive' = SaveActiveSessionToStorage(activeSession'[1], disk)
       /\ UNCHANGED <<offlineQueue, storedQueue, sessions, userDoc>>
  ELSE UNCHANGED smVars

SM_ResumeSession(disk) ==
  IF activeSession # None /\ Truthy(activeSession[1].pausedTime)
  THEN LET pauseDuration == now - activeSession[1].pausedTime
       IN  /\ activeSession' = Some([activeSession[1] EXCEPT
                                 !.totalPausedDuration = @ + pauseDuration,
                                 !.pausedTime = Undefined])
           /\ storedActive' = SaveActiveSessionToStorage(activeSession'[1], disk)
           /\ UNCHANGED <<offlineQueue, storedQueue, sessions, userDoc>>
  ELSE UNCHANGED smVars

(***************************************************************************)
(* SessionManager.recoverActiveSession                                     *)
(***************************************************************************)
\* A stored value JSON.parse throws on.
Unparsable == [unparsable |-> TRUE]

\* getItem returns a value and JSON.parse returns: otherwise the catch logs
\* the error and recoverActiveSession returns null.
Recoverable == storedActive # None /\ storedActive[1] # Unparsable

RecoverRet == IF Recoverable THEN ParseActive(storedActive[1]).sessionId
              ELSE Undefined

SM_RecoverActiveSession ==
  /\ activeSession' = IF Recoverable
                      THEN Some(ParseActive(storedActive[1]))
                      ELSE activeSession
  /\ UNCHANGED <<offlineQueue, storedActive, storedQueue, sessions, userDoc>>

(***************************************************************************)
(* SessionManager.processOfflineQueue.  ok[i]: the Firestore calls made   *)
(* for entry i succeed; sdkRejects: the Firestore SDK refuses a where()   *)
(* whose value is undefined (it throws inside the entry's try block).     *)
(* A where('sessionId', '==', v) matches only documents that have the     *)
(* field.                                                                  *)
(***************************************************************************)
ExistingDocs(docs, session) ==
  IF session.sessionId = Undefined THEN {}
  ELSE {i \in 1..Len(docs) : docs[i].sessionId = session.sessionId}

MinOf(S) == CHOOSE x \in S : \A y \in S : x <= y

OrZero(x) == IF Truthy(x) THEN x ELSE 0

MergeExisting(existingSession, session) ==
  IF session.endTime # Undefined /\ existingSession.endTime # Undefined
     /\ OrZero(session.actualDuration) > OrZero(existingSession.actualDuration)
  THEN [existingSession EXCEPT !.actualDuration = session.actualDuration,
                               !.completed = session.completed,
                               !.endTime = session.endTime]
  ELSE existingSession

RECURSIVE ReplayLoop(_, _, _, _, _, _, _)
ReplayLoop(queue, i, ok, sdkRejects, docs, processed, failed) ==
  IF i > Len(queue)
  THEN [docs |-> docs, processed |-> processed, failed |-> failed]
  ELSE LET session == queue[i]
           existing == ExistingDocs(docs, session)
       IN  IF ~ok[i] \/ (sdkRejects /\ session.sessionId = Undefined)
           THEN ReplayLoop(queue, i + 1, ok, sdkRejects, docs, processed,
                           Append(failed, session))
           ELSE IF existing = {}
           THEN ReplayLoop(queue, i + 1, ok, sdkRejects, Append(docs, session),
                           Append(processed, session), failed)
           ELSE ReplayLoop(queue, i + 1, ok, sdkRejects,
                           [docs EXCEPT ![MinOf(existing)] = MergeExisting(@, session)],
                           Append(processed, session), failed)

(***************************************************************************)
(* SessionManager.updateUserSessionStats                                   *)
(***************************************************************************)
RECURSIVE SumFocusMinutes(_)
SumFocusMinutes(ss) ==
  IF ss = <<>> THEN 0
  ELSE LET s == Head(ss)
       IN  (IF s.completed /\ s.type = "work"
            THEN Floor(IF Truthy(s.actualDuration) THEN s.actualDuration
                       ELSE s.plannedDuration, SecPerMin)
            ELSE 0) + SumFocusMinutes(Tail(ss))

UpdateUserSessionStats(u, processed) ==
  LET completedSessions == SelectSeq(processed, LAMBDA s : s.completed)
  IN  [u EXCEPT !.totalSessions = OrZero(@) + Len(completedSessions),
                !.totalFocusMinutes = OrZero(@) + SumFocusMinutes(completedSessions)]

\* A replay that leaves the entries it has applied in the queue.
SM_ProcessOfflineQueue_KeepingApplied(userGiven, ok, sdkRejects) ==
  IF storedQueue = None
  THEN UNCHANGED smVars
  ELSE LET queue == ParseQueue(storedQueue[1])
           r == ReplayLoop(queue, 1, ok, sdkRejects, sessions, <<>>, <<>>)
       IN  /\ sessions' = r.docs
           /\ storedQueue' = Some(StringifyQueue(queue))
           /\ offlineQueue' = queue
           /\ userDoc' = IF r.processed # <<>> /\ userGiven
                         THEN UpdateUserSessionStats(userDoc, r.processed)
                         ELSE userDoc
           /\ UNCHANGED <<activeSession, storedActive>>

SM_ProcessOfflineQueue(userGiven, ok, sdkRejects) ==
  IF storedQueue = None
  THEN UNCHANGED smVars
  ELSE LET queue == ParseQueue(storedQueue[1])
           r == ReplayLoop(queue, 1, ok, sdkRejects, sessions, <<>>, <<>>)
       IN  /\ sessions' = r.docs
           /\ IF r.failed # <<>>
              THEN /\ storedQueue' = Some(StringifyQueue(r.failed))
                   /\ offlineQueue' = r.failed
              ELSE /\ storedQueue' = None
                   /\ offlineQueue' = <<>>
           /\ userDoc' = IF r.processed # <<>> /\ userGiven
                         THEN UpdateUserSessionStats(userDoc, r.processed)
                         ELSE userDoc
           /\ UNCHANGED <<activeSession, storedActive>>

(***************************************************************************)
(* The session of record: the one in memory, else the persisted one.      *)
(* trueRun advances with the clock exactly while it is not paused.        *)
(***************************************************************************)
SessionOfRecord ==
  IF activeSession # None THEN activeSession
  ELSE IF Recoverable THEN Some(ParseActive(storedActive[1]))
  ELSE None

RecordRunning ==
  SessionOfRecord # None /\ ~Truthy(SessionOfRecord[1].pausedTime)

Call(op, net, threw, ret) == [op |-> op, net |-> net, threw |-> threw, ret |-> ret]

(***************************************************************************)
(* The clock.                                                              *)
(***************************************************************************)
Advance(d, ticks) ==
  /\ now + d <= Epoch + ticks * StepMs
  /\ now' = now + d
  /\ trueRun' = IF RecordRunning THEN trueRun + d ELSE trueRun
  /\ UNCHANGED <<today, smVars, hkVars, lastCall, savedObj>>

(***************************************************************************)
(* useSessionManager: the facade the UI calls.                             *)
(***************************************************************************)
HookView(s) == Some([sessionId |-> s.sessionId, plannedDuration |-> s.plannedDuration])

HookStartSession(type, duration, net, disk) ==
  /\ SM_StartSession(type, duration, net, disk)
  /\ IF StartThrows(net)
     THEN UNCHANGED <<hkVars, trueRun, savedObj>>
     ELSE /\ hkSession' = HookView(activeSession'[1])
          /\ hkPaused' = FALSE
          /\ hkElapsed' = 0
          /\ trueRun' = 0
          /\ savedObj' = activeSession'
  /\ lastCall' = Call("startSession", net, StartThrows(net), StartRet(net))
  /\ UNCHANGED <<now, today>>

HookCompleteSessionOf(hs, completed, net, streakOk, yesterdayStr) ==
  /\ IF hs = None
     THEN UNCHANGED <<smVars, hkVars, trueRun, savedObj>>
     ELSE /\ SM_CompleteSession(hs[1].sessionId,
                                Floor(GetElapsedTime, MsPerSec), completed, net, streakOk,
                                yesterdayStr, TRUE)
          /\ IF CompleteThrows(net)
             THEN UNCHANGED <<hkVars, trueRun, savedObj>>
             ELSE /\ hkSession' = None
                  /\ hkPaused' = FALSE
                  /\ hkElapsed' = 0
                  /\ trueRun' = 0
                  /\ savedObj' = None
  /\ lastCall' = Call("completeSession", net, hs # None /\ CompleteThrows(net),
                      Undefined)
  /\ UNCHANGED <<now, today>>

\* completeSession of the current render: its closure holds the current
\* activeSession state.
HookCompleteSession(completed, net, streakOk, yesterdayStr) ==
  HookCompleteSessionOf(hkSession, completed, net, streakOk, yesterdayStr)

HookCancelSession(net) ==
  /\ IF hkSession = None
     THEN UNCHANGED <<smVars, hkVars, trueRun, savedObj>>
     ELSE /\ SM_CancelSession(hkSession[1].sessionId, net, TRUE)
          /\ IF CancelThrows(net)
             THEN UNCHANGED <<hkVars, trueRun, savedObj>>
             ELSE /\ hkSession' = None
                  /\ hkPaused' = FALSE
                  /\ hkElapsed' = 0
                  /\ trueRun' = 0
                  /\ savedObj' = None
  /\ lastCall' = Call("cancelSession", net, hkSession # None /\ CancelThrows(net),
                      Undefined)
  /\ UNCHANGED <<now, today>>

HookPauseSession(disk) ==
  /\ IF hkSession # None /\ ~hkPaused
     THEN /\ SM_PauseSession(disk)
          /\ hkPaused' = TRUE
          /\ UNCHANGED <<hkSession, hkElapsed>>
     ELSE UNCHANGED <<smVars, hkVars>>
  /\ savedObj' = IF activeSession' # activeSession THEN activeSession' ELSE savedObj
  /\ lastCall' = Call("pauseSession", TRUE, FALSE, Undefined)
  /\ UNCHANGED <<now, today, trueRun>>

HookResumeSession(disk) ==
  /\ IF hkSession # None /\ hkPaused
     THEN /\ SM_ResumeSession(disk)
          /\ hkPaused' = FALSE
          /\ UNCHANGED <<hkSession, hkElapsed>>
     ELSE UNCHANGED <<smVars, hkVars>>
  /\ savedObj' = IF activeSession' # activeSession THEN activeSession' ELSE savedObj
  /\ lastCall' = Call("resumeSession", TRUE, FALSE, Undefined)
  /\ UNCHANGED <<now, today, trueRun>>

(***************************************************************************)
(* useSessionManager: initializeSession, the recovery run on mount.       *)
(***************************************************************************)
HookInitializeSession ==
  /\ SM_RecoverActiveSession
  /\ IF Recoverable
     THEN /\ hkSession' = HookView(activeSession'[1])
          /\ hkPaused' = (activeSession'[1].pausedTime # Undefined)
          /\ UNCHANGED hkElapsed
     ELSE UNCHANGED hkVars
  /\ lastCall' = Call("recoverActiveSession", TRUE, FALSE, RecoverRet)
  /\ UNCHANGED <<now, today, trueRun, savedObj>>

(***************************************************************************)
(* The offline queue replay, called on the manager directly.              *)
(***************************************************************************)
Applied(queue, ok, sdkRejects) ==
  Cardinality({i \in 1..Len(queue) :
                 ok[i] /\ ~(sdkRejects /\ queue[i].sessionId = Undefined)})

\* The bound on the records of the ledger during a replay.
CanReplay(ok, sdkRejects, docs) ==
  storedQueue # None =>
    Len(sessions) + Applied(ParseQueue(storedQueue[1]), ok, sdkRejects) <= docs

\* The call records, as its result, how the Firestore calls of the run went.
ProcessOfflineQueue(userGiven, ok, sdkRejects) ==
  /\ SM_ProcessOfflineQueue(userGiven, ok, sdkRejects)
  /\ lastCall' = Call("processOfflineQueue", \A i \in DOMAIN ok : ok[i], FALSE,
                      [ok |-> ok, sdkRejects |-> sdkRejects, userGiven |-> userGiven])
  /\ UNCHANGED <<now, today, hkVars, trueRun, savedObj>>

(***************************************************************************)
(* The process is killed and started again: memory is lost, AsyncStorage  *)
(* and the remote ledger are kept.                                         *)
(***************************************************************************)
ProcessRestart ==
  /\ activeSession' = None
  /\ offlineQueue' = <<>>
  /\ hkSession' = None
  /\ hkPaused' = FALSE
  /\ hkElapsed' = 0
  /\ lastCall' = Call("restart", TRUE, FALSE, Undefined)
  /\ UNCHANGED <<now, today, storedActive, storedQueue, sessions, userDoc,
                 trueRun, savedObj>>

\* The timerState of the TimerManager constructor and of stopTimer.
NewTimerState ==
  [isActive |-> FALSE, isPaused |-> FALSE, startTime |-> None, pausedTime |-> None,
   elapsedTime |-> 0, sessionId |-> Undefined, plannedDuration |-> 0]

NewUserDoc ==
  [totalSessions |-> 0, totalFocusMinutes |-> 0, currentStreak |-> 0,
   longestStreak |-> 0, lastSessionDate |-> Undefined]

Init ==
  /\ now = Epoch
  /\ today = FirstDay
  /\ activeSession = None
  /\ offlineQueue = <<>>
  /\ storedActive = None
  /\ storedQueue = None
  /\ sessions = <<>>
  /\ userDoc = NewUserDoc
  /\ hkSession = None
  /\ hkPaused = FALSE
  /\ lastCall = Call("init", TRUE, FALSE, Undefined)
  /\ trueRun = 0
  /\ savedObj = None
  /\ conv = "fresh"
  /\ hkElapsed = 0
  /\ sessionType = "work"
  /\ cycleSessionsCompleted = 0
  /\ sessionsCompleted = 0
  /\ alertNext = None
  /\ completing = None
  /\ timerState = NewTimerState
  /\ storedTimer = None
  /\ notificationIds = <<>>
  /\ pending = {}
  /\ appState = "active"
  /\ writes = <<>>
  /\ tasks = <<>>
  /\ storedInterruption = None

QueueLen == IF storedQueue = None THEN 0 ELSE Len(storedQueue[1])

\* The bound on the records of the ledger and of the offline queue.
CanStart(net, docs) ==
  /\ net => Len(sessions) < docs
  /\ ~net => Len(offlineQueue) < MaxQueue

StartStep ==
  \E in \in StartInputs, net \in BOOLEAN :
    /\ CanStart(net, MaxDocs)
    /\ HookStartSession(in[1], in[2], net, TRUE)

CompleteStep ==
  \E completed \in BOOLEAN, net \in BOOLEAN, streakOk \in BOOLEAN :
    \E yesterdayStr \in YesterdayStrs(today) :
      HookCompleteSession(completed, net, streakOk, yesterdayStr)

CancelStep == \E net \in BOOLEAN : HookCancelSession(net)

ReplayStep ==
  \E userGiven \in BOOLEAN, sdkRejects \in BOOLEAN :
    \E ok \in [1..QueueLen -> BOOLEAN] :
      /\ CanReplay(ok, sdkRejects, MaxDocs)
      /\ ProcessOfflineQueue(userGiven, ok, sdkRejects)

(***************************************************************************)
(* Spec: the session state machine under the clock (start, pause, resume, *)
(* complete, cancel, recovery, process death), with an AsyncStorage whose *)
(* writes succeed; SpecPersist has the writes that fail.                   *)
(***************************************************************************)
Tick == (\E d \in ClockSteps : Advance(d, MaxTicks)) /\ UNCHANGED coreFrame
Start == StartStep /\ UNCHANGED coreFrame
Complete == CompleteStep /\ UNCHANGED coreFrame
Cancel == CancelStep /\ UNCHANGED coreFrame
Pause == HookPauseSession(TRUE) /\ UNCHANGED coreFrame
Resume == HookResumeSession(TRUE) /\ UNCHANGED coreFrame
Recover == HookInitializeSession /\ UNCHANGED coreFrame
Restart == ProcessRestart /\ UNCHANGED coreFrame

Next ==
  \/ Tick
  \/ Start
  \/ Complete
  \/ Cancel
  \/ Pause
  \/ Resume
  \/ Recover
  \/ Restart

Spec == Init /\ [][Next]_vars

(***************************************************************************)
(* SpecOffline: the offline queue and its replay, at one instant of the   *)
(* clock.  conv follows the scenario "start while unreachable, then       *)
(* complete while unreachable, then replay with the ledger reachable";    *)
(* any other call leaves the scenario.                                     *)
(***************************************************************************)
Pristine ==
  /\ activeSession = None /\ storedActive = None /\ hkSession = None
  /\ offlineQueue = <<>> /\ storedQueue = None /\ sessions = <<>>

OffStart ==
  /\ StartStep
  /\ conv' = IF conv = "fresh" /\ Pristine /\ ~lastCall'.net THEN "started" ELSE "off"
  /\ UNCHANGED <<logicVars, timerVars, writes, tasks>>

OffComplete ==
  /\ CompleteStep
  /\ conv' = IF conv = "started" /\ ~lastCall'.net THEN "completed" ELSE "off"
  /\ UNCHANGED <<logicVars, timerVars, writes, tasks>>

OffCancel == CancelStep /\ conv' = "off" /\ UNCHANGED <<logicVars, timerVars, writes, tasks>>

OffReplay ==
  /\ ReplayStep
  /\ conv' = IF conv = "completed" /\ lastCall'.net THEN "replayed" ELSE "off"
  /\ UNCHANGED <<logicVars, timerVars, writes, tasks>>

OffRecover == HookInitializeSession /\ conv' = "off" /\ UNCHANGED <<logicVars, timerVars, writes, tasks>>
OffRestart == ProcessRestart /\ conv' = "off" /\ UNCHANGED <<logicVars, timerVars, writes, tasks>>

NextOffline ==
  \/ OffStart
  \/ OffComplete
  \/ OffCancel
  \/ OffReplay
  \/ OffRecover
  \/ OffRestart

SpecOffline == Init /\ [][NextOffline]_vars

(***************************************************************************)
(* SpecStreak: the streak transaction of a completed work session, over   *)
(* the days.  The transaction reads the UTC date of the moment as today   *)
(* and derives yesterday from the local calendar (setDate/getDate) before *)
(* converting it back to a UTC date.                                       *)
(***************************************************************************)
StreakTransaction(hour, shift) ==
  /\ userDoc' = UpdateUserStreak(userDoc, today, YesterdayStr(today, hour, shift))
  /\ lastCall' = Call("updateUserStreak", TRUE, FALSE, YesterdayStr(today, hour, shift))
  /\ UNCHANGED <<now, today, activeSession, offlineQueue, storedActive, storedQueue,
                 sessions, hkVars, trueRun, savedObj, coreFrame>>

StreakUpdate == \E hour \in HoursOfDay, shift \in DstShifts : StreakTransaction(hour, shift)

NextDay ==
  /\ today < FirstDay + MaxDays
  /\ today' = today + 1
  /\ UNCHANGED <<now, smVars, hkVars, lastCall, trueRun, savedObj, coreFrame>>

NextStreak ==
  \/ StreakUpdate
  \/ NextDay

SpecStreak == Init /\ [][NextStreak]_vars

(***************************************************************************)
(* SpecLogic: useTimerLogic on top of the facade.  The interval of        *)
(* useSessionManager polls the elapsed time; the effect on elapsedTime    *)
(* calls handleTimerComplete when nothing remains; handleTimerComplete    *)
(* runs later with the state its closure captured.  When no session is    *)
(* active timeLeft is the preset duration of sessionType, so a start      *)
(* takes its duration from the type.                                       *)
(***************************************************************************)
PresetSeconds(type) ==
  CASE type = "work" -> WorkSec
    [] type = "break" -> BreakSec
    [] OTHER -> LongBreakSec

Remaining(hs, elapsed) == hs[1].plannedDuration - Floor(elapsed, MsPerSec)

Captured ==
  Some([sessionType |-> sessionType,
        cycleSessionsCompleted |-> cycleSessionsCompleted,
        sessionsCompleted |-> sessionsCompleted,
        activeSession |-> hkSession'])

\* setInterval callback of startElapsedTimeTracking, and the effect that
\* follows the change of elapsedTime.
L_Interval ==
  /\ hkSession # None /\ ~hkPaused
  /\ hkElapsed' = GetElapsedTime
  /\ UNCHANGED <<hkSession, hkPaused>>
  /\ completing' = IF hkElapsed' # hkElapsed /\ Remaining(hkSession, hkElapsed') <= 0
                   THEN Captured ELSE completing
  /\ lastCall' = Call("interval", TRUE, FALSE, Undefined)
  /\ UNCHANGED <<now, today, smVars, trueRun, savedObj, conv, sessionType,
                 cycleSessionsCompleted, sessionsCompleted, alertNext, timerVars, writes, tasks>>

HandleTimerComplete(net, streakOk, yesterdayStr) ==
  LET c == completing[1]
      newCycleSessionsCompleted == c.cycleSessionsCompleted + 1
  IN  /\ completing # None
      /\ HookCompleteSessionOf(c.activeSession, TRUE, net, streakOk, yesterdayStr)
      /\ IF c.sessionType = "work"
         THEN /\ cycleSessionsCompleted' = newCycleSessionsCompleted
              /\ sessionsCompleted' = c.sessionsCompleted + 1
              /\ sessionType' = IF newCycleSessionsCompleted % SessionsUntilLongBreak = 0
                                THEN "longBreak" ELSE "break"
         ELSE /\ cycleSessionsCompleted' = IF c.sessionType = "longBreak"
                                           THEN 0 ELSE cycleSessionsCompleted
              /\ sessionType' = "work"
              /\ UNCHANGED sessionsCompleted
      /\ alertNext' = Some(sessionType')
      /\ completing' = None
      /\ UNCHANGED <<conv, timerVars, writes, tasks>>

L_TimerComplete ==
  \E net \in BOOLEAN, streakOk \in BOOLEAN :
    \E yesterdayStr \in YesterdayStrs(today) :
      HandleTimerComplete(net, streakOk, yesterdayStr)

StartNextSession(type, net) ==
  /\ CanStart(net, LogicDocs)
  /\ HookStartSession(type, PresetSeconds(type), net, TRUE)
  /\ alertNext' = None
  /\ UNCHANGED <<conv, sessionType, cycleSessionsCompleted, sessionsCompleted,
                 completing, timerVars, writes, tasks>>

\* The only button of the alert raised by handleTimerComplete.
L_AlertPress ==
  /\ alertNext # None
  /\ \E net \in BOOLEAN : StartNextSession(alertNext[1], net)

ToggleTimer(net) ==
  /\ alertNext = None
  /\ IF hkSession # None /\ ~hkPaused
     THEN HookPauseSession(TRUE)
     ELSE IF hkSession # None /\ hkPaused
          THEN HookResumeSession(TRUE)
          ELSE /\ CanStart(net, LogicDocs)
               /\ HookStartSession(sessionType, PresetSeconds(sessionType), net, TRUE)
  /\ UNCHANGED <<conv, logicVars, timerVars, writes, tasks>>

L_ToggleTimer == \E net \in BOOLEAN : ToggleTimer(net)

ResetTimer(net) ==
  /\ alertNext = None
  /\ hkSession # None
  /\ HookCancelSession(net)
  /\ UNCHANGED <<conv, logicVars, timerVars, writes, tasks>>

L_ResetTimer == \E net \in BOOLEAN : ResetTimer(net)

ChangePreset(net) ==
  /\ alertNext = None
  /\ IF hkSession # None
     THEN HookCancelSession(net)
     ELSE /\ lastCall' = Call("changePreset", TRUE, FALSE, Undefined)
          /\ UNCHANGED <<now, today, smVars, hkVars, trueRun, savedObj>>
  /\ IF hkSession # None /\ CancelThrows(net)
     THEN UNCHANGED <<sessionType, cycleSessionsCompleted, sessionsCompleted>>
     ELSE /\ sessionType' = "work"
          /\ sessionsCompleted' = 0
          /\ cycleSessionsCompleted' = 0
  /\ UNCHANGED <<conv, alertNext, completing, timerVars, writes, tasks>>

L_ChangePreset == \E net \in BOOLEAN : ChangePreset(net)

\* The process dies and starts again, and the mount effect of
\* useSessionManager recovers: every useState is initial again, memory is
\* lost, AsyncStorage and the ledger are kept, and the snapshot found is
\* restored.  The effect on activeSession then sees elapsedTime = 0.
L_ColdStart ==
  /\ activeSession' = IF Recoverable
                      THEN Some(ParseActive(storedActive[1])) ELSE None
  /\ offlineQueue' = <<>>
  /\ hkSession' = IF Recoverable THEN HookView(activeSession'[1]) ELSE None
  /\ hkPaused' = (Recoverable /\ activeSession'[1].pausedTime # Undefined)
  /\ hkElapsed' = 0
  /\ sessionType' = "work"
  /\ cycleSessionsCompleted' = 0
  /\ sessionsCompleted' = 0
  /\ alertNext' = None
  /\ completing' = None
  /\ lastCall' = Call("recoverActiveSession", TRUE, FALSE, RecoverRet)
  /\ UNCHANGED <<now, today, storedActive, storedQueue, sessions, userDoc,
                 trueRun, savedObj, conv, timerVars, writes, tasks>>

L_Tick == Advance(2 * StepMs, LogicTicks) /\ UNCHANGED coreFrame

NextLogic ==
  \/ L_Tick
  \/ L_Interval
  \/ L_TimerComplete
  \/ L_AlertPress
  \/ L_ToggleTimer
  \/ L_ResetTimer
  \/ L_ChangePreset
  \/ L_ColdStart

SpecLogic == Init /\ [][NextLogic]_vars

(***************************************************************************)
(* TimerManager.  A time held in timerState is a Date object or, once it  *)
(* has been through JSON, the ISO string of that date: isDate tells which. *)
(* getTime() exists on a Date only; on a string the call is a TypeError.   *)
(***************************************************************************)
DateOf(t) == Some([isDate |-> TRUE, t |-> t])

ToJSON(d) == IF d = None THEN None ELSE Some([isDate |-> FALSE, t |-> d[1].t])

\* JSON.stringify(this.timerState): the Date fields become strings.
StringifyTimer(ts) ==
  [ts EXCEPT !.startTime = ToJSON(@), !.pausedTime = ToJSON(@)]

\* JSON.parse: strings stay strings.
ParseTimer(j) == j

LoadTimerState == IF storedTimer = None THEN None ELSE Some(ParseTimer(storedTimer[1]))

HasGetTime(d) == d # None /\ d[1].isDate

RECURSIVE SeqOfSet(_)
SeqOfSet(S) ==
  IF S = {} THEN <<>>
  ELSE LET m == CHOOSE x \in S : \A y \in S : x <= y
       IN  <<m>> \o SeqOfSet(S \ {m})

IdsOf(ns) == {n.id : n \in ns}

Range(q) == {q[i] : i \in DOMAIN q}

\* The identifiers the platform returns for the next notifications scheduled:
\* ones that no pending notification and no entry of notificationIds holds.
InUse == IdsOf(pending) \cup Range(notificationIds)

FreshIds == SeqOfSet((1..(MaxNotifications + 3)) \ InUse)

NextNotification == FreshIds[1]

CanSchedule == Cardinality(InUse) < MaxNotifications


\* The platform delivers a notification when its time has come; it is
\* pending until then.
StillPending(ns, t) == {n \in ns : n.at > t}

\* scheduleCompletionNotification on the timerState ts: the notification it
\* schedules, if any.  A TypeError inside its try block is swallowed.
CompletionNotifications(ts) ==
  IF ts.isActive /\ ~ts.isPaused /\ HasGetTime(ts.startTime)
  THEN {[id |-> NextNotification, kind |-> "completion",
         at |-> ts.startTime[1].t + ts.plannedDuration * MsPerSec,
         sessionId |-> ts.sessionId]}
  ELSE {}

\* scheduleBackgroundNotifications on the timerState ts: progress reminders
\* 5, 10 and 15 minutes before the end, when more than 5 minutes remain.
ReminderNotifications(ts) ==
  IF ts.isActive /\ ~ts.isPaused /\ ts.startTime # None
  THEN LET remainingTime == ts.plannedDuration - ts.elapsedTime
       IN  {[id |-> FreshIds[interval \div 300], kind |-> "reminder",
             at |-> now + (remainingTime - interval) * MsPerSec,
             sessionId |-> ts.sessionId] :
              interval \in {i \in {300, 600, 900} : remainingTime > 300 /\ i < remainingTime}}
  ELSE {}

\* Notifications.scheduleNotificationAsync for each of ns, and the push of
\* the ids returned, onto the pending set pend and the id list ids.
Scheduled(ns, ids, pend) ==
  [ids |-> ids \o SeqOfSet(IdsOf(ns)),
   pending |-> pend \cup StillPending(ns, now)]

\* cancelPendingNotifications on the id list ids and the pending set pend.
Cancelled(ids, pend) == {n \in pend : n.id \notin Range(ids)}

TimerFrame == <<hkVars, conv, logicVars, today, now, writes, tasks, storedInterruption>>

\* startTimer
TM_StartTimer(sessionId, plannedDuration) ==
  LET ts == [isActive |-> TRUE, isPaused |-> FALSE, startTime |-> DateOf(now),
             pausedTime |-> None, elapsedTime |-> 0, sessionId |-> sessionId,
             plannedDuration |-> plannedDuration]
      sch == Scheduled(CompletionNotifications(ts), notificationIds, pending)
  IN  /\ CanSchedule
      /\ timerState' = ts
      /\ storedTimer' = Some(StringifyTimer(ts))
      /\ notificationIds' = sch.ids
      /\ pending' = sch.pending
      /\ lastCall' = Call("startTimer", TRUE, FALSE, Undefined)
      /\ UNCHANGED <<smVars, trueRun, savedObj, appState, TimerFrame>>

\* pauseTimer
PauseThrows == timerState.startTime # None /\ ~HasGetTime(timerState.startTime)

\* pauseTimer without its test of isPaused: every call stamps the pause.
PauseTimer_Restamping ==
  IF ~timerState.isActive
     THEN UNCHANGED <<timerState, storedTimer, notificationIds, pending>>
     ELSE LET marked == [timerState EXCEPT !.isPaused = TRUE, !.pausedTime = DateOf(now)]
              ts == IF timerState.startTime = None THEN marked
                    ELSE [marked EXCEPT !.elapsedTime =
                            Floor(now - timerState.startTime[1].t, MsPerSec)]
          IN  IF PauseThrows
              THEN /\ timerState' = marked
                   /\ UNCHANGED <<storedTimer, notificationIds, pending>>
              ELSE /\ timerState' = ts
                   /\ storedTimer' = Some(StringifyTimer(ts))
                   /\ pending' = Cancelled(notificationIds, pending)
                   /\ notificationIds' = <<>>

PauseTimer ==
  IF ~timerState.isActive \/ timerState.isPaused
     THEN UNCHANGED <<timerState, storedTimer, notificationIds, pending>>
     ELSE LET marked == [timerState EXCEPT !.isPaused = TRUE, !.pausedTime = DateOf(now)]
              ts == IF timerState.startTime = None THEN marked
                    ELSE [marked EXCEPT !.elapsedTime =
                            Floor(now - timerState.startTime[1].t, MsPerSec)]
          IN  IF PauseThrows
              THEN /\ timerState' = marked
                   /\ UNCHANGED <<storedTimer, notificationIds, pending>>
              ELSE /\ timerState' = ts
                   /\ storedTimer' = Some(StringifyTimer(ts))
                   /\ pending' = Cancelled(notificationIds, pending)
                   /\ notificationIds' = <<>>

TM_PauseTimer ==
  /\ PauseTimer
  /\ lastCall' = Call("pauseTimer", TRUE,
                      timerState.isActive /\ ~timerState.isPaused /\ PauseThrows, Undefined)
  /\ UNCHANGED <<smVars, trueRun, savedObj, appState, TimerFrame>>

\* resumeTimer
ResumeThrows ==
  /\ timerState.startTime # None /\ timerState.pausedTime # None
  /\ ~(HasGetTime(timerState.pausedTime) /\ HasGetTime(timerState.startTime))

TM_ResumeTimer ==
  /\ IF ~timerState.isActive \/ ~timerState.isPaused \/ ResumeThrows
     THEN UNCHANGED <<timerState, storedTimer, notificationIds, pending>>
     ELSE LET moved == IF timerState.startTime # None /\ timerState.pausedTime # None
                       THEN DateOf(timerState.startTime[1].t
                                   + (now - timerState.pausedTime[1].t))
                       ELSE timerState.startTime
              ts == [timerState EXCEPT !.startTime = moved, !.isPaused = FALSE,
                                       !.pausedTime = None]
              sch == Scheduled(CompletionNotifications(ts), notificationIds, pending)
          IN  /\ CanSchedule
              /\ timerState' = ts
              /\ storedTimer' = Some(StringifyTimer(ts))
              /\ notificationIds' = sch.ids
              /\ pending' = sch.pending
  /\ lastCall' = Call("resumeTimer", TRUE,
                      timerState.isActive /\ timerState.isPaused /\ ResumeThrows, Undefined)
  /\ UNCHANGED <<smVars, trueRun, savedObj, appState, TimerFrame>>

\* stopTimer
TM_StopTimer ==
  /\ timerState' = NewTimerState
  /\ storedTimer' = None
  /\ pending' = Cancelled(notificationIds, pending)
  /\ notificationIds' = <<>>
  /\ lastCall' = Call("stopTimer", TRUE, FALSE, Undefined)
  /\ UNCHANGED <<smVars, trueRun, savedObj, appState, TimerFrame>>

\* handleTimerComplete(sessionId) on the timerState ts: completeSession
\* gets the elapsedTime cached in ts; when it throws (commits: FALSE) the
\* error is swallowed and the timer is left as it is.  The completion
\* notification it shows is immediate and never pending.
TimerCompletes(ts, sessionId, commits) == ts.sessionId = sessionId /\ commits

Commits(sessionId, net) == net /\ sessionId \in 1..Len(sessions)

AfterTimerComplete(ts, sessionId, commits) ==
  IF TimerCompletes(ts, sessionId, commits)
  THEN [timerState |-> NewTimerState, storedTimer |-> None, ids |-> <<>>,
        pending |-> Cancelled(notificationIds, pending)]
  ELSE [timerState |-> ts, storedTimer |-> storedTimer, ids |-> notificationIds,
        pending |-> pending]

CompleteFromTimer(ts, sessionId, commits, streakOk, yesterdayStr) ==
  IF TimerCompletes(ts, sessionId, commits)
  THEN /\ SM_CompleteSession(sessionId, ts.elapsedTime, TRUE, TRUE, streakOk, yesterdayStr,
                          TRUE)
       /\ trueRun' = 0
       /\ savedObj' = None
  ELSE UNCHANGED <<smVars, trueRun, savedObj>>

\* syncTimerOnForeground: the timerState it builds from the saved state.
SyncedState(saved) ==
  LET elapsedTime ==
        IF saved.isPaused /\ saved.pausedTime # None
        THEN saved.pausedTime[1].t - saved.startTime[1].t
        ELSE IF ~saved.isPaused /\ saved.startTime # None
             THEN now - saved.startTime[1].t
             ELSE 0
  IN  [ms |-> elapsedTime,
       ts |-> [saved EXCEPT !.elapsedTime = Floor(elapsedTime, MsPerSec)]]

\* handleAppStateChange('active')
TM_Foreground(net, streakOk, yesterdayStr) ==
  /\ appState # "active"
  /\ appState' = "active"
  /\ IF LoadTimerState = None \/ ~LoadTimerState[1].isActive
     THEN UNCHANGED <<timerState, storedTimer, notificationIds, pending, smVars,
                      trueRun, savedObj>>
     ELSE LET saved == LoadTimerState[1]
              sync == SyncedState(saved)
              done == saved.plannedDuration * MsPerSec - sync.ms <= 0
                      /\ Truthy(saved.sessionId) /\ ~saved.isPaused
              commits == done /\ Commits(saved.sessionId, net)
              after == AfterTimerComplete(sync.ts, saved.sessionId, commits)
          IN  /\ timerState' = after.timerState
              /\ storedTimer' = after.storedTimer
              /\ pending' = Cancelled(after.ids, after.pending)
              /\ notificationIds' = <<>>
              /\ CompleteFromTimer(sync.ts, saved.sessionId, commits, streakOk,
                                   yesterdayStr)
  /\ lastCall' = Call("foreground", net, FALSE, Undefined)
  /\ UNCHANGED TimerFrame

\* handleAppStateChange('background' | 'inactive')
TM_Background ==
  /\ appState = "active"
  /\ appState' = "background"
  /\ IF LoadTimerState = None \/ ~LoadTimerState[1].isActive
     THEN UNCHANGED <<storedTimer, notificationIds, pending>>
     ELSE LET sch == Scheduled(ReminderNotifications(timerState), notificationIds,
                               pending)
          IN  /\ ReminderNotifications(timerState) # {} => CanSchedule
              /\ storedTimer' = Some(StringifyTimer(timerState))
              /\ notificationIds' = sch.ids
              /\ pending' = sch.pending
  /\ lastCall' = Call("background", TRUE, FALSE, Undefined)
  /\ UNCHANGED <<timerState, smVars, trueRun, savedObj, TimerFrame>>

\* handleBackgroundUpdate, the background fetch task
TM_BackgroundUpdate(net, streakOk, yesterdayStr) ==
  /\ appState = "background"
  /\ LET state == LoadTimerState
         due == /\ state # None /\ state[1].isActive /\ ~state[1].isPaused
                /\ state[1].plannedDuration * MsPerSec - (now - state[1].startTime[1].t) <= 0
                /\ Truthy(state[1].sessionId)
         sessionId == state[1].sessionId
         commits == due /\ Commits(sessionId, net)
         after == AfterTimerComplete(timerState, sessionId, commits)
     IN  IF due
         THEN /\ timerState' = after.timerState
              /\ storedTimer' = after.storedTimer
              /\ pending' = after.pending
              /\ notificationIds' = after.ids
              /\ CompleteFromTimer(timerState, sessionId, commits, streakOk, yesterdayStr)
         ELSE UNCHANGED <<timerState, storedTimer, notificationIds, pending, smVars,
                          trueRun, savedObj>>
  /\ lastCall' = Call("backgroundUpdate", net, FALSE, Undefined)
  /\ UNCHANGED <<appState, TimerFrame>>

(***************************************************************************)
(* SpecTimer: the TimerManager under the clock, the application state     *)
(* changes, the background task and process death.  Sessions of the       *)
(* ledger come from the facade, which also completes and cancels them;    *)
(* startTimer takes any session id.                                        *)
(***************************************************************************)
TimerInputs == {<<1, WorkSec>>}

T_Tick ==
  /\ Advance(StepMs, TimerTicks)
  /\ pending' = StillPending(pending, now')
  /\ UNCHANGED <<conv, logicVars, timerState, storedTimer, notificationIds, appState,
                 writes, tasks, storedInterruption>>

T_SessionStart ==
  /\ CanStart(TRUE, TimerDocs) /\ HookStartSession("work", WorkSec, TRUE, TRUE)
  /\ UNCHANGED coreFrame

\* The session is completed or cancelled through the facade, which knows
\* nothing of the TimerManager.
T_SessionComplete ==
  /\ \E completed \in BOOLEAN, net \in BOOLEAN :
       HookCompleteSession(completed, net, TRUE, YesterdayStr(today, 0, 0))
  /\ UNCHANGED coreFrame
T_SessionCancel == CancelStep /\ UNCHANGED coreFrame

T_StartTimer == \E in \in TimerInputs : TM_StartTimer(in[1], in[2])

T_Foreground ==
  \E net \in BOOLEAN, streakOk \in BOOLEAN :
    \E yesterdayStr \in YesterdayStrs(today) : TM_Foreground(net, streakOk, yesterdayStr)

T_BackgroundUpdate ==
  \E net \in BOOLEAN, streakOk \in BOOLEAN :
    \E yesterdayStr \in YesterdayStrs(today) :
      TM_BackgroundUpdate(net, streakOk, yesterdayStr)

\* The process dies and starts again: the TimerManager is constructed anew,
\* the platform keeps what was scheduled.
T_Restart ==
  /\ ProcessRestart
  /\ timerState' = NewTimerState
  /\ notificationIds' = <<>>
  /\ appState' = "active"
  /\ UNCHANGED <<conv, logicVars, storedTimer, pending, writes, tasks,
                 storedInterruption>>

NextTimer ==
  \/ T_Tick
  \/ T_SessionStart
  \/ T_SessionComplete
  \/ T_SessionCancel
  \/ T_StartTimer
  \/ TM_PauseTimer
  \/ TM_ResumeTimer
  \/ TM_StopTimer
  \/ TM_Background
  \/ T_Foreground
  \/ T_BackgroundUpdate
  \/ T_Restart

SpecTimer == Init /\ [][NextTimer]_vars

(***************************************************************************)
(* SpecPersist: the session state machine with an AsyncStorage whose      *)
(* setItem may reject.  The ledger is reachable.                           *)
(***************************************************************************)
P_Tick == (\E d \in ClockSteps : Advance(d, MaxTicks)) /\ UNCHANGED coreFrame

P_Start ==
  /\ \E in \in StartInputs, disk \in BOOLEAN :
       /\ CanStart(TRUE, MaxDocs)
       /\ HookStartSession(in[1], in[2], TRUE, disk)
  /\ UNCHANGED coreFrame

P_Pause == (\E disk \in BOOLEAN : HookPauseSession(disk)) /\ UNCHANGED coreFrame
P_Resume == (\E disk \in BOOLEAN : HookResumeSession(disk)) /\ UNCHANGED coreFrame
P_Cancel == HookCancelSession(TRUE) /\ UNCHANGED coreFrame
P_Recover == HookInitializeSession /\ UNCHANGED coreFrame
P_Restart == ProcessRestart /\ UNCHANGED coreFrame

NextPersist ==
  \/ P_Tick
  \/ P_Start
  \/ P_Pause
  \/ P_Resume
  \/ P_Cancel
  \/ P_Recover
  \/ P_Restart

SpecPersist == Init /\ [][NextPersist]_vars

(***************************************************************************)
(* SpecReplay: processOfflineQueue as a function of what it reads, the    *)
(* 'offlineQueue' key of AsyncStorage and the ledger.  The process starts *)
(* with a stored queue of SessionData values; the entries startSession    *)
(* queues (no sessionId, not completed) are among them.  A replay runs to *)
(* its end, or the process is killed inside its loop, after the entry's   *)
(* write and before the queue is rewritten.                                *)
(***************************************************************************)
EntryOutcomes ==
  {[completed |-> FALSE, actualDuration |-> Undefined, endTime |-> Undefined]}
  \cup {[completed |-> TRUE, actualDuration |-> k * SecPerMin, endTime |-> ServerTime] :
          k \in 1..ReplayMinutes}

QueuedEntries ==
  {[sessionId |-> id, type |-> "work", plannedDuration |-> WorkSec,
    actualDuration |-> o.actualDuration, endTime |-> o.endTime,
    completed |-> o.completed, interrupted |-> FALSE, cancelled |-> FALSE,
    date |-> FirstDay] : id \in {Undefined} \cup (1..ReplayIds), o \in EntryOutcomes}

\* The entries of one queue differ: two queued sessions never have the same
\* startTime, a field the model leaves out.
StoredQueues ==
  {q \in UNION {[1..n -> QueuedEntries] : n \in 1..ReplayQueue} :
     \A i, j \in DOMAIN q : i # j => q[i] # q[j]}

InitReplay ==
  /\ now = Epoch
  /\ today = FirstDay
  /\ activeSession = None
  /\ offlineQueue = <<>>
  /\ storedActive = None
  /\ storedQueue \in {Some(StringifyQueue(q)) : q \in StoredQueues}
  /\ sessions = <<>>
  /\ userDoc = NewUserDoc
  /\ hkSession = None
  /\ hkPaused = FALSE
  /\ lastCall = Call("init", TRUE, FALSE, Undefined)
  /\ trueRun = 0
  /\ savedObj = None
  /\ conv = "fresh"
  /\ hkElapsed = 0
  /\ sessionType = "work"
  /\ cycleSessionsCompleted = 0
  /\ sessionsCompleted = 0
  /\ alertNext = None
  /\ completing = None
  /\ timerState = NewTimerState
  /\ storedTimer = None
  /\ notificationIds = <<>>
  /\ pending = {}
  /\ appState = "active"
  /\ writes = <<>>
  /\ tasks = <<>>
  /\ storedInterruption = None

R_Replay ==
  /\ \E userGiven \in BOOLEAN, sdkRejects \in BOOLEAN :
       \E ok \in [1..QueueLen -> BOOLEAN] :
         /\ CanReplay(ok, sdkRejects, ReplayDocs)
         /\ ProcessOfflineQueue(userGiven, ok, sdkRejects)
  /\ UNCHANGED coreFrame

\* The process is killed while processOfflineQueue is in its loop, after the
\* first n entries have been handled: their writes are in the ledger, the
\* queue in storage is as it was, memory is lost.
ReplayKilled(n, ok, sdkRejects) ==
  LET queue == SubSeq(ParseQueue(storedQueue[1]), 1, n)
      r == ReplayLoop(queue, 1, ok, sdkRejects, sessions, <<>>, <<>>)
  IN  /\ Len(sessions) + Applied(queue, ok, sdkRejects) <= ReplayDocs
      /\ sessions' = r.docs
      /\ activeSession' = None
      /\ offlineQueue' = <<>>
      /\ hkSession' = None
      /\ hkPaused' = FALSE
      /\ hkElapsed' = 0
      /\ lastCall' = Call("processOfflineQueueKilled", \A i \in DOMAIN ok : ok[i], FALSE,
                          Undefined)
      /\ UNCHANGED <<now, today, storedActive, storedQueue, userDoc, trueRun, savedObj>>

R_ReplayKilled ==
  /\ storedQueue # None
  /\ \E n \in 1..QueueLen, sdkRejects \in BOOLEAN :
       \E ok \in [1..n -> BOOLEAN] : ReplayKilled(n, ok, sdkRejects)
  /\ UNCHANGED coreFrame

R_Restart == ProcessRestart /\ UNCHANGED coreFrame

NextReplay ==
  \/ R_Replay
  \/ R_ReplayKilled
  \/ R_Restart

SpecReplay == InitReplay /\ [][NextReplay]_vars

(***************************************************************************)
(* SpecWrites: the writes of the 'activeSession' key in flight.  pause and *)
(* resume issue setItem and return without awaiting it; complete and      *)
(* cancel await removeItem.  AsyncStorage performs the operations it is   *)
(* handed one at a time, in the order of the calls; every operation       *)
(* succeeds here (SpecPersist has the ones that fail).  The ledger is     *)
(* reachable, and the calls are those of the timer screen: one finish at  *)
(* a time, a start when no session is held.                               *)
(***************************************************************************)
\* The operation AsyncStorage performs next, as an index into writes.
NextToLand_Last(q) == Len(q)
NextToLand(q) == 1

Issue(value) == writes' = Append(writes, value)

\* A finish has been called and has not returned: the manager has dropped
\* its session, the facade has not yet.
FinishInFlight == hkSession # None /\ activeSession = None
RemoveInFlight == \E i \in 1..Len(writes) : writes[i] = None
AwaitOps == {"completeSession:await", "cancelSession:await"}
FinishOps == {"completeSession", "cancelSession"}

W_Tick == (\E d \in ClockSteps : Advance(d, MaxTicks)) /\ UNCHANGED coreFrame

\* startSession awaits its write: the call returns when it has landed.
W_Start ==
  /\ hkSession = None
  /\ writes = <<>>
  /\ \E in \in StartInputs :
       /\ CanStart(TRUE, WriteDocs)
       /\ HookStartSession(in[1], in[2], TRUE, TRUE)
  /\ UNCHANGED coreFrame

W_Pause ==
  /\ Len(writes) < MaxWrites
  /\ HookPauseSession(FALSE)
  /\ writes' = IF activeSession' # activeSession
               THEN Append(writes, SavedActive(activeSession'[1])) ELSE writes
  /\ UNCHANGED writesFrame

W_Resume ==
  /\ Len(writes) < MaxWrites
  /\ HookResumeSession(FALSE)
  /\ writes' = IF activeSession' # activeSession
               THEN Append(writes, SavedActive(activeSession'[1])) ELSE writes
  /\ UNCHANGED writesFrame

\* completeSession up to its await of removeItem: the record is finalized,
\* the manager's session dropped, the removal handed to AsyncStorage.  A
\* session recovered after a process death can be completed again, and is
\* counted again: MaxCounted bounds that.
W_CompleteAwait ==
  /\ hkSession # None
  /\ ~FinishInFlight
  /\ \E completed \in BOOLEAN :
       /\ completed => userDoc.totalSessions < MaxCounted
       /\ SM_CompleteSession(hkSession[1].sessionId, Floor(GetElapsedTime, MsPerSec),
                             completed, TRUE, TRUE, YesterdayStr(today, 0, 0), FALSE)
  /\ Issue(None)
  /\ lastCall' = Call("completeSession:await", TRUE, FALSE, Len(writes))
  /\ UNCHANGED <<now, today, hkVars, trueRun, savedObj>>
  /\ UNCHANGED writesFrame

W_CancelAwait ==
  /\ hkSession # None
  /\ ~FinishInFlight
  /\ SM_CancelSession(hkSession[1].sessionId, TRUE, FALSE)
  /\ Issue(None)
  /\ lastCall' = Call("cancelSession:await", TRUE, FALSE, Len(writes))
  /\ UNCHANGED <<now, today, hkVars, trueRun, savedObj>>
  /\ UNCHANGED writesFrame

\* AsyncStorage performs one operation.
W_Land ==
  /\ writes # <<>>
  /\ LET i == NextToLand(writes)
     IN  /\ storedActive' = writes[i]
         /\ writes' = SubSeq(writes, 1, i - 1) \o SubSeq(writes, i + 1, Len(writes))
  /\ UNCHANGED <<now, today, activeSession, offlineQueue, storedQueue, sessions, userDoc,
                 hkVars, lastCall, trueRun, savedObj>>
  /\ UNCHANGED writesFrame

\* The removal has been performed: the finish returns to the facade, which
\* drops its session.  The call records how many writes were in flight when
\* it began to wait, when nothing else was called since.
W_FinishReturn ==
  /\ FinishInFlight
  /\ ~RemoveInFlight
  /\ hkSession' = None
  /\ hkPaused' = FALSE
  /\ hkElapsed' = 0
  /\ trueRun' = 0
  /\ savedObj' = None
  /\ lastCall' = Call(IF sessions[hkSession[1].sessionId].cancelled
                      THEN "cancelSession" ELSE "completeSession", TRUE, FALSE,
                      IF lastCall.op \in AwaitOps THEN lastCall.ret ELSE Undefined)
  /\ UNCHANGED <<now, today, smVars, writes, tasks>>
  /\ UNCHANGED writesFrame

\* The operations in flight die with the process.
W_Restart == ProcessRestart /\ writes' = <<>> /\ UNCHANGED writesFrame

\* initializeSession runs once, when the facade mounts.
W_Recover ==
  /\ lastCall.op = "restart"
  /\ HookInitializeSession
  /\ UNCHANGED coreFrame

NextWrites ==
  \/ W_Tick
  \/ W_Start
  \/ W_Pause
  \/ W_Resume
  \/ W_CompleteAwait
  \/ W_CancelAwait
  \/ W_Land
  \/ W_FinishReturn
  \/ W_Restart
  \/ W_Recover

SpecWrites == Init /\ [][NextWrites]_vars

(***************************************************************************)
(* SpecOverlap: processOfflineQueue step by step.  The function waits at  *)
(* every Firestore and AsyncStorage call, and nothing keeps a second call *)
(* from starting, or startSession from queueing, while one waits.  A task *)
(* holds the locals of one call.  The stored queue is one a former        *)
(* process left; its entries carry a sessionId.                            *)
(***************************************************************************)
\* The queue a former process left: entries of one session, queued when it
\* started and when it completed.
OverlapQueues ==
  {q \in StoredQueues :
     \A i \in DOMAIN q : q[i].sessionId # Undefined /\ OrZero(q[i].actualDuration) <= SecPerMin}

InitOverlap ==
  /\ InitReplay
  /\ storedQueue \in {Some(StringifyQueue(q)) : q \in OverlapQueues}

NewReplay(queue, userGiven) ==
  [fn |-> "processOfflineQueue", pc |-> "getDocs", queue |-> queue, i |-> 1,
   found |-> None, processed |-> <<>>, failed |-> <<>>, userGiven |-> userGiven]

\* The loop goes on to the next entry, or leaves the loop.
NextEntry(t) ==
  [t EXCEPT !.i = @ + 1, !.found = None,
            !.pc = IF t.i + 1 > Len(t.queue) THEN "setItem" ELSE "getDocs"]

EntryFailed(t) == NextEntry([t EXCEPT !.failed = Append(@, t.queue[t.i])])
EntryProcessed(t) == NextEntry([t EXCEPT !.processed = Append(@, t.queue[t.i])])

Without(q, k) == SubSeq(q, 1, k - 1) \o SubSeq(q, k + 1, Len(q))

\* processOfflineQueue is called: it reads the stored queue.
O_Call ==
  /\ Len(tasks) < MaxReplays
  /\ OrZero(userDoc.totalSessions) < MaxCounted
  /\ \E userGiven \in BOOLEAN :
       tasks' = IF storedQueue = None THEN tasks
                ELSE Append(tasks, NewReplay(ParseQueue(storedQueue[1]), userGiven))
  /\ lastCall' = Call("processOfflineQueue:call", TRUE, FALSE, Undefined)
  /\ UNCHANGED <<now, today, smVars, hkVars, trueRun, savedObj>>
  /\ UNCHANGED tasksFrame

\* getDocs(existingQuery) returns, or throws into the entry's catch.
O_GetDocs ==
  /\ \E k \in 1..Len(tasks), ok \in BOOLEAN :
       LET t == tasks[k]
           existing == ExistingDocs(sessions, t.queue[t.i])
       IN  /\ t.fn = "processOfflineQueue" /\ t.pc = "getDocs"
           /\ tasks' = [tasks EXCEPT ![k] =
                IF ~ok THEN EntryFailed(t)
                ELSE [t EXCEPT !.pc = "write",
                               !.found = IF existing = {} THEN None
                                         ELSE Some([id |-> MinOf(existing),
                                                    data |-> sessions[MinOf(existing)]])]]
           /\ lastCall' = Call("processOfflineQueue:getDocs", ok, FALSE, k)
  /\ UNCHANGED <<now, today, smVars, hkVars, trueRun, savedObj>>
  /\ UNCHANGED tasksFrame

\* setDoc of a new document, or updateDoc of the one found, returns or
\* throws.  The merge is decided on the data getDocs returned.
O_Write ==
  /\ \E k \in 1..Len(tasks), ok \in BOOLEAN :
       LET t == tasks[k]
           session == t.queue[t.i]
       IN  /\ t.fn = "processOfflineQueue" /\ t.pc = "write"
           /\ IF ~ok
              THEN /\ tasks' = [tasks EXCEPT ![k] = EntryFailed(t)]
                   /\ UNCHANGED sessions
              ELSE /\ tasks' = [tasks EXCEPT ![k] = EntryProcessed(t)]
                   /\ IF t.found = None
                      THEN /\ Len(sessions) < OverlapDocs
                           /\ sessions' = Append(sessions, session)
                      ELSE sessions' =
                             IF MergeExisting(t.found[1].data, session) # t.found[1].data
                             THEN [sessions EXCEPT ![t.found[1].id] =
                                     [@ EXCEPT !.actualDuration = session.actualDuration,
                                               !.completed = session.completed,
                                               !.endTime = session.endTime]]
                             ELSE sessions
           /\ lastCall' = Call("processOfflineQueue:write", ok, FALSE, k)
  /\ UNCHANGED <<now, today, activeSession, offlineQueue, storedActive, storedQueue, userDoc,
                 hkVars, trueRun, savedObj>>
  /\ UNCHANGED tasksFrame

\* The queue is rewritten with the failed entries, the statistics updated,
\* and the call returns.  The call records the locals it ended with.
O_Return ==
  /\ \E k \in 1..Len(tasks) :
       LET t == tasks[k]
       IN  /\ t.fn = "processOfflineQueue" /\ t.pc = "setItem"
           /\ IF t.failed # <<>>
              THEN /\ storedQueue' = Some(StringifyQueue(t.failed))
                   /\ offlineQueue' = t.failed
              ELSE /\ storedQueue' = None
                   /\ offlineQueue' = <<>>
           /\ userDoc' = IF t.processed # <<>> /\ t.userGiven
                         THEN UpdateUserSessionStats(userDoc, t.processed)
                         ELSE userDoc
           /\ tasks' = Without(tasks, k)
           /\ lastCall' = Call("processOfflineQueue", TRUE, FALSE,
                               [processed |-> t.processed, failed |-> t.failed])
  /\ UNCHANGED <<now, today, activeSession, storedActive, sessions, hkVars, trueRun,
                 savedObj>>
  /\ UNCHANGED tasksFrame

\* startSession while the ledger is unreachable: the session is queued.
O_Enqueue ==
  /\ CanStart(FALSE, OverlapDocs)
  /\ HookStartSession("work", WorkSec, FALSE, TRUE)
  /\ UNCHANGED coreFrame

\* The calls in flight die with the process.
O_Restart == ProcessRestart /\ tasks' = <<>> /\ UNCHANGED tasksFrame

NextOverlap ==
  \/ O_Call
  \/ O_GetDocs
  \/ O_Write
  \/ O_Return
  \/ O_Enqueue
  \/ O_Restart

SpecOverlap == InitOverlap /\ [][NextOverlap]_vars

(***************************************************************************)
(* SpecInterrupt: the TimerManager under system interruptions, with a     *)
(* clock that also moves by the hour after which an interruption record   *)
(* is no longer offered.  No session is in the ledger: a timer that has   *)
(* run out stays as it is.                                                 *)
(***************************************************************************)
InterruptionTypes == {"call", "lowBattery"}

\* new Date().toISOString() of the record, and new Date(timestamp) of the
\* recovery: the string holds the milliseconds.
InterruptionTime(i) == i.timestamp[1].t

\* handleSystemInterruption(type)
TM_HandleSystemInterruption(type) ==
  /\ IF ~timerState.isActive \/ timerState.isPaused
     THEN UNCHANGED <<timerState, storedTimer, notificationIds, pending, storedInterruption>>
     ELSE /\ PauseTimer
          /\ storedInterruption' =
               IF PauseThrows THEN storedInterruption
               ELSE Some([type |-> type, timestamp |-> ToJSON(DateOf(now)),
                          sessionId |-> timerState.sessionId,
                          elapsedTime |-> timerState'.elapsedTime])
  /\ lastCall' = Call("handleSystemInterruption", TRUE,
                      timerState.isActive /\ ~timerState.isPaused /\ PauseThrows, Undefined)
  /\ UNCHANGED <<smVars, trueRun, savedObj, appState, hkVars, conv, logicVars, today, now,
                 writes, tasks>>

\* recoverFromInterruption: its result is whether the resumption is offered.
RecoverFromInterruption ==
  /\ storedInterruption # None
  /\ now - InterruptionTime(storedInterruption[1]) < InterruptionTtlMs

TM_RecoverFromInterruption ==
  /\ storedInterruption' = IF RecoverFromInterruption THEN None ELSE storedInterruption
  /\ lastCall' = Call("recoverFromInterruption", TRUE, FALSE, RecoverFromInterruption)
  /\ UNCHANGED <<timerState, storedTimer, notificationIds, pending>>
  /\ UNCHANGED <<smVars, trueRun, savedObj, appState, hkVars, conv, logicVars, today, now,
                 writes, tasks>>

\* The clock moves by a step near the beginning of an hour, or by the hour.
I_Tick ==
  /\ \E d \in {StepMs, InterruptionTtlMs} :
       /\ d = StepMs => (now - Epoch) % InterruptionTtlMs < InterruptNear * StepMs
       /\ Advance(d, InterruptTicks)
  /\ pending' = StillPending(pending, now')
  /\ UNCHANGED <<conv, logicVars, timerState, storedTimer, notificationIds, appState,
                 writes, tasks, storedInterruption>>

I_Interruption == \E type \in InterruptionTypes : TM_HandleSystemInterruption(type)

I_Foreground == TM_Foreground(TRUE, TRUE, YesterdayStr(today, 0, 0))

NextInterrupt ==
  \/ I_Tick
  \/ T_StartTimer
  \/ TM_PauseTimer
  \/ TM_ResumeTimer
  \/ TM_StopTimer
  \/ TM_Background
  \/ I_Foreground
  \/ I_Interruption
  \/ TM_RecoverFromInterruption
  \/ T_Restart

SpecInterrupt == Init /\ [][NextInterrupt]_vars

(***************************************************************************)
(* SpecPoll: useTimerLogic with the interval on time.  While the          *)
(* application is in the foreground the interval polls after every second *)
(* of the clock and handleTimerComplete runs before the next one; in the  *)
(* background the interval is stopped and the session goes on.            *)
(***************************************************************************)
\* The interval has a poll to make: a second has passed since the last one.
PollDue ==
  /\ appState = "active"
  /\ hkSession # None /\ ~hkPaused
  /\ hkElapsed # GetElapsedTime

U_Tick ==
  /\ ~PollDue
  /\ completing = None
  /\ Advance(PollMs, PollTicks)
  /\ UNCHANGED coreFrame

U_Interval == appState = "active" /\ L_Interval

\* handleAppStateChange of useSessionManager: stopElapsedTimeTracking when
\* the application leaves the foreground, startElapsedTimeTracking when it
\* returns; the session is not touched.
U_Background ==
  /\ appState = "active"
  /\ appState' = "background"
  /\ lastCall' = Call("background", TRUE, FALSE, Undefined)
  /\ UNCHANGED <<now, today, smVars, hkVars, trueRun, savedObj, conv, logicVars, timerState,
                 storedTimer, notificationIds, pending, storedInterruption, writes, tasks>>

U_Foreground ==
  /\ appState # "active"
  /\ appState' = "active"
  /\ lastCall' = Call("foreground", TRUE, FALSE, Undefined)
  /\ UNCHANGED <<now, today, smVars, hkVars, trueRun, savedObj, conv, logicVars, timerState,
                 storedTimer, notificationIds, pending, storedInterruption, writes, tasks>>

\* The buttons are pressed in the foreground.
U_AlertPress == appState = "active" /\ L_AlertPress
U_ToggleTimer == appState = "active" /\ L_ToggleTimer
U_ResetTimer == appState = "active" /\ L_ResetTimer

NextPoll ==
  \/ U_Tick
  \/ U_Interval
  \/ U_Background
  \/ U_Foreground
  \/ L_TimerComplete
  \/ U_AlertPress
  \/ U_ToggleTimer
  \/ U_ResetTimer
  \/ L_ColdStart

SpecPoll == Init /\ [][NextPoll]_vars

(***************************************************************************)
(* SpecCorrupt: the session state machine in a process that finds a       *)
(* damaged snapshot in storage: a value that is no JSON, or a session     *)
(* whose start time or paused duration gives a negative elapsed time.     *)
(* The ledger holds the open record of the session.                        *)
(***************************************************************************)
\* getElapsedTime before Math.max(0, ...).
RawElapsed(s, t) ==
  (t - s.startTime)
    - (s.totalPausedDuration + (IF Truthy(s.pausedTime) THEN t - s.pausedTime ELSE 0))

DamagedSessions ==
  {[NewActiveSession(1, "work", WorkSec) EXCEPT !.startTime = Epoch + ahead * StepMs,
                                                 !.totalPausedDuration = paused * StepMs] :
     ahead \in 0..MaxAhead, paused \in 0..MaxAhead} \ {NewActiveSession(1, "work", WorkSec)}

DamagedSnapshots == {Unparsable} \cup {StringifyActive(s) : s \in DamagedSessions}

\* The snapshot cannot be parsed, or its elapsed time is negative.
Damaged(j, t) == j = Unparsable \/ RawElapsed(ParseActive(j), t) < 0

InitCorrupt ==
  /\ now = Epoch
  /\ today = FirstDay
  /\ activeSession = None
  /\ offlineQueue = <<>>
  /\ storedActive \in {Some(j) : j \in DamagedSnapshots}
  /\ storedQueue = None
  /\ sessions = <<NewSessionData("work", WorkSec)>>
  /\ userDoc = NewUserDoc
  /\ hkSession = None
  /\ hkPaused = FALSE
  /\ lastCall = Call("init", TRUE, FALSE, Undefined)
  /\ trueRun = 0
  /\ savedObj = None
  /\ conv = "fresh"
  /\ hkElapsed = 0
  /\ sessionType = "work"
  /\ cycleSessionsCompleted = 0
  /\ sessionsCompleted = 0
  /\ alertNext = None
  /\ completing = None
  /\ timerState = NewTimerState
  /\ storedTimer = None
  /\ notificationIds = <<>>
  /\ pending = {}
  /\ appState = "active"
  /\ writes = <<>>
  /\ tasks = <<>>
  /\ storedInterruption = None

NextCorrupt ==
  \/ Tick
  \/ Recover
  \/ Pause
  \/ Resume
  \/ Cancel
  \/ Restart

SpecCorrupt == InitCorrupt /\ [][NextCorrupt]_vars

(***************************************************************************)
(* SpecPause: a session of the facade and its timer in the TimerManager,  *)
(* each paused and resumed by its own calls, in any order and any number  *)
(* of times.                                                               *)
(***************************************************************************)
NextPause ==
  \/ T_Tick
  \/ T_SessionStart
  \/ Pause
  \/ Resume
  \/ T_StartTimer
  \/ TM_PauseTimer
  \/ TM_ResumeTimer
  \/ TM_Background
  \/ I_Foreground
  \/ T_Restart
  \/ Recover

SpecPause == Init /\ [][NextPause]_vars

(***************************************************************************)
(* SpecInFlight: useTimerLogic with the await of handleTimerComplete as a *)
(* step of its own.  The effect on elapsedTime calls handleTimerComplete, *)
(* which calls completeSession and waits for the transaction; the         *)
(* interval goes on polling meanwhile, because the facade clears its      *)
(* session only after the await.  this.activeSession, which the           *)
(* transaction function reads, is taken at the end of the transaction.    *)
(***************************************************************************)
\* handleTimerComplete up to the await: the state its closure holds, and the
\* actualDuration completeSession of the facade has computed.
NewHandler ==
  [fn |-> "handleTimerComplete",
   sessionType |-> sessionType,
   cycleSessionsCompleted |-> cycleSessionsCompleted,
   sessionsCompleted |-> sessionsCompleted,
   sessionId |-> hkSession[1].sessionId,
   actualDuration |-> Floor(GetElapsedTime, MsPerSec)]

\* setInterval callback of startElapsedTimeTracking and the effect on
\* elapsedTime: when nothing remains handleTimerComplete is called.
F_Interval ==
  /\ appState = "active"
  /\ hkSession # None /\ ~hkPaused
  /\ hkElapsed' = GetElapsedTime
  /\ UNCHANGED <<hkSession, hkPaused>>
  /\ IF hkElapsed' # hkElapsed /\ Remaining(hkSession, hkElapsed') <= 0
     THEN /\ Len(tasks) < MaxHandlers
          /\ tasks' = Append(tasks, NewHandler)
     ELSE UNCHANGED tasks
  /\ lastCall' = Call("interval", TRUE, FALSE, Undefined)
  /\ UNCHANGED <<now, today, smVars, trueRun, savedObj, conv, logicVars, timerVars, writes>>

\* The transaction of a waiting handleTimerComplete ends, and the handler
\* runs to its end with the state of its closure.
HandlerReturns(k, net, streakOk, yesterdayStr) ==
  LET t == tasks[k]
      newCycleSessionsCompleted == t.cycleSessionsCompleted + 1
  IN  /\ SM_CompleteSession(t.sessionId, t.actualDuration, TRUE, net, streakOk,
                            yesterdayStr, TRUE)
      /\ IF CompleteThrows(net)
         THEN UNCHANGED <<hkVars, trueRun, savedObj>>
         ELSE /\ hkSession' = None
              /\ hkPaused' = FALSE
              /\ hkElapsed' = 0
              /\ trueRun' = 0
              /\ savedObj' = None
      /\ IF t.sessionType = "work"
         THEN /\ cycleSessionsCompleted' = newCycleSessionsCompleted
              /\ sessionsCompleted' = t.sessionsCompleted + 1
              /\ sessionType' = IF newCycleSessionsCompleted % SessionsUntilLongBreak = 0
                                THEN "longBreak" ELSE "break"
         ELSE /\ cycleSessionsCompleted' = IF t.sessionType = "longBreak"
                                           THEN 0 ELSE cycleSessionsCompleted
              /\ sessionType' = "work"
              /\ UNCHANGED sessionsCompleted
      /\ alertNext' = Some(sessionType')
      /\ tasks' = Without(tasks, k)
      /\ lastCall' = Call("completeSession", net, CompleteThrows(net), Undefined)
      /\ UNCHANGED <<now, today, conv, completing, timerVars, writes>>

F_Return ==
  \E k \in DOMAIN tasks, net \in BOOLEAN, streakOk \in BOOLEAN :
    HandlerReturns(k, net, streakOk, YesterdayStr(today, 0, 0))

NextInFlight ==
  \/ U_Tick
  \/ F_Interval
  \/ F_Return
  \/ U_AlertPress
  \/ U_ToggleTimer
  \/ U_ResetTimer

SpecInFlight == Init /\ [][NextInFlight]_vars

(***************************************************************************)
(* Properties of the session state machine.                                *)
(***************************************************************************)
IsCall(op) == lastCall'.op = op /\ now' = now /\ today' = today

StoredSession == ParseActive(storedActive[1])

PlannedMs(s) == s.plannedDuration * MsPerSec

\* C1: a start issued while a session is active fails and leaves the active
\* session and its persisted snapshot unchanged.
C1_StartWhileActiveFails ==
  [][(IsCall("startSession") /\ activeSession # None)
       => /\ lastCall'.threw
          /\ activeSession' = activeSession
          /\ storedActive' = storedActive]_vars

\* C2: a start from idle with the ledger unreachable still returns a session
\* id, leaves a running session with a persisted snapshot, and grows the
\* offline queue by one entry.
C2_OfflineStartStillStarts ==
  [][(IsCall("startSession") /\ activeSession = None /\ ~lastCall'.net)
       => /\ ~lastCall'.threw
          /\ lastCall'.ret # Undefined
          /\ activeSession' # None
          /\ storedActive' # None
          /\ Len(offlineQueue') = Len(offlineQueue) + 1]_vars

\* C3: a complete or cancel of the active session with the ledger
\* unreachable raises no error, queues one entry, and clears the in-memory
\* and persisted active session.
C3_OfflineFinishQueuesAndClears ==
  [][((IsCall("completeSession") \/ IsCall("cancelSession"))
        /\ activeSession # None /\ hkSession # None /\ ~lastCall'.net)
       => /\ ~lastCall'.threw
          /\ Len(offlineQueue') = Len(offlineQueue) + 1
          /\ activeSession' = None
          /\ storedActive' = None]_vars

\* C4: for one session, the elapsed time never decreases, does not move
\* while the session is paused, and equals the time the session has really
\* been running.
C4_ElapsedMonotone ==
  [][/\ activeSession' # None => GetElapsedTime' = trueRun'
     /\ (/\ activeSession # None
         /\ activeSession' # None
         /\ activeSession'[1].sessionId = activeSession[1].sessionId)
          => /\ GetElapsedTime' >= GetElapsedTime
             /\ (/\ activeSession[1].pausedTime # Undefined
                 /\ activeSession'[1].pausedTime # Undefined)
                  => GetElapsedTime' = GetElapsedTime]_vars

\* C4 witness: a session that was paused, resumed, and has run for a second.
C4_Witness ==
  /\ activeSession # None
  /\ activeSession[1].totalPausedDuration > 0
  /\ activeSession[1].pausedTime = Undefined
  /\ GetElapsedTime >= MsPerSec

\* C5: recovery with a persisted snapshot whose elapsed time is below the
\* planned duration restores exactly the persisted session, running or
\* paused as persisted, reports it, shows the true elapsed time, and a
\* second recovery changes nothing.
C5_RecoveryRestores ==
  [][(/\ IsCall("recoverActiveSession")
      /\ storedActive # None
      /\ ElapsedOf(StoredSession, now) < PlannedMs(StoredSession))
       => /\ activeSession' = savedObj
          /\ storedActive' = storedActive
          /\ lastCall'.ret = savedObj[1].sessionId
          /\ hkSession' = HookView(savedObj[1])
          /\ hkPaused' = (savedObj[1].pausedTime # Undefined)
          /\ GetElapsedTime' = trueRun
          /\ lastCall.op = "recoverActiveSession"
               => /\ activeSession' = activeSession
                  /\ hkSession' = hkSession
                  /\ hkPaused' = hkPaused
                  /\ lastCall' = lastCall]_vars

\* C5 witness: a recovery has restored a paused session with time on it.
C5_Witness ==
  /\ lastCall.op = "recoverActiveSession"
  /\ activeSession # None
  /\ activeSession[1].pausedTime # Undefined
  /\ GetElapsedTime > 0
  /\ GetElapsedTime < PlannedMs(activeSession[1])

\* C6: recovery with a persisted snapshot whose elapsed time exceeds the
\* planned duration restores nothing, removes the snapshot, and reports no
\* session.
C6_ExpiredSnapshotDiscarded ==
  [][(/\ IsCall("recoverActiveSession")
      /\ storedActive # None
      /\ ElapsedOf(StoredSession, now) > PlannedMs(StoredSession))
       => /\ activeSession' = None
          /\ storedActive' = None
          /\ hkSession' = None
          /\ lastCall'.ret = Undefined]_vars

\* C7: after a start and a complete both made while the ledger is
\* unreachable the offline queue holds one entry, and after the replay the
\* ledger holds exactly one record of the session, completed, and the queue
\* is empty.
C7_OfflineThenOnlineConverges ==
  /\ conv = "completed" => QueueLen = 1
  /\ conv = "replayed"
       => /\ Len(sessions) = 1
          /\ sessions[1].completed
          /\ QueueLen = 0
          /\ offlineQueue = <<>>

\* C8: on a completed work session the streak becomes current + 1 when the
\* last active date is yesterday, stays when it is today, becomes 1 for any
\* other date or none, and the longest streak is the maximum of its previous
\* value and the new current streak.
C8_StreakComputation ==
  [][(lastCall'.op = "updateUserStreak" /\ today' = today /\ now' = now)
       => LET lastActiveDate == userDoc.lastSessionDate
          IN  /\ lastActiveDate = today - 1
                   => userDoc'.currentStreak = userDoc.currentStreak + 1
              /\ lastActiveDate = today
                   => userDoc'.currentStreak = userDoc.currentStreak
              /\ lastActiveDate \notin {today - 1, today}
                   => userDoc'.currentStreak = 1
              /\ userDoc'.longestStreak
                   = Max(userDoc.longestStreak, userDoc'.currentStreak)]_vars

\* C9: completing a work session adds one to the counter of work sessions
\* since the last long break, completing a long break resets it to 0, and
\* a process restart and the recovery after it leave it as it was.
C9_CycleCounterPersists ==
  [][/\ IsCall("recoverActiveSession")
          => cycleSessionsCompleted' = cycleSessionsCompleted
     /\ (completing # None /\ IsCall("completeSession"))
          => /\ completing[1].sessionType = "work"
                  => cycleSessionsCompleted' = cycleSessionsCompleted + 1
             /\ completing[1].sessionType = "longBreak"
                  => cycleSessionsCompleted' = 0]_vars

PendingFor(sessionId) == {n \in pending : n.sessionId = sessionId}

\* C10: a pause of a running timer leaves no pending notification for its
\* session, and a resume of a paused timer with time remaining leaves
\* exactly one pending notification for it, a completion notification at
\* the previous completion time plus the paused duration.
C10_PauseResumeNotifications ==
  [][/\ (IsCall("pauseTimer") /\ timerState.isActive /\ ~timerState.isPaused)
          => PendingFor(timerState.sessionId)' = {}
     /\ (/\ IsCall("resumeTimer")
         /\ timerState.isActive /\ timerState.isPaused
         /\ timerState.startTime # None /\ timerState.pausedTime # None
         /\ timerState.startTime[1].t + timerState.plannedDuration * MsPerSec
              > timerState.pausedTime[1].t)
          => \E n \in pending' :
               /\ PendingFor(timerState.sessionId)' = {n}
               /\ n.kind = "completion"
               /\ n.at = timerState.startTime[1].t
                         + timerState.plannedDuration * MsPerSec
                         + (now - timerState.pausedTime[1].t)]_vars

StreakFields(u) == <<u.currentStreak, u.longestStreak, u.lastSessionDate>>

\* C11: on the completion of a work session the session-count and
\* focus-minute increments and the streak update are applied together or not
\* at all: when the counters have been incremented the streak is that of
\* today, and the streak fields change only with the counters.
C11_AtomicAggregates ==
  [][(IsCall("completeSession") /\ activeSession # None
        /\ activeSession[1].type = "work")
       => /\ userDoc'.totalSessions # userDoc.totalSessions
               => userDoc'.lastSessionDate = today
          /\ StreakFields(userDoc') # StreakFields(userDoc)
               => userDoc'.totalSessions = userDoc.totalSessions + 1]_vars

(***************************************************************************)
(* Properties of the offline queue replay.                                 *)
(***************************************************************************)
\* Two records are of the same session when they carry the same sessionId,
\* or, carrying none, are the same record.
SameSession(a, b) ==
  IF a.sessionId # Undefined \/ b.sessionId # Undefined
  THEN a.sessionId = b.sessionId
  ELSE a = b

NewRecords == {k \in 1..Len(sessions') : k > Len(sessions)}

FailedAt(queue, ok, sdkRejects) ==
  {i \in 1..Len(queue) : ~ok[i] \/ (sdkRejects /\ queue[i].sessionId = Undefined)}

Kept(queue, S) == [k \in 1..Cardinality(S) |-> queue[SeqOfSet(S)[k]]]

\* C19: after a run of processOfflineQueue the queue, in memory and in
\* storage, is exactly the entries that failed to apply, in the order they
\* had; the entries applied or found already present are gone, and a queue
\* left empty is removed from storage.
C19_FailedEntriesRemain ==
  [][(IsCall("processOfflineQueue") /\ storedQueue # None)
       => LET queue == ParseQueue(storedQueue[1])
              out == lastCall'.ret
              remaining == Kept(queue, FailedAt(queue, out.ok, out.sdkRejects))
          IN  /\ offlineQueue' = remaining
              /\ IF Len(remaining) = 0
                 THEN storedQueue' = None
                 ELSE /\ storedQueue' # None
                      /\ ParseQueue(storedQueue'[1]) = remaining]_vars

\* C19 witness: a run over two entries has removed the first, which it
\* applied, and kept the second, which failed.
C19_Witness ==
  /\ lastCall.op = "processOfflineQueue"
  /\ lastCall.ret.ok = <<TRUE, FALSE>>
  /\ Len(offlineQueue) = 1
  /\ storedQueue # None
  /\ Len(sessions) = 1

OpenRecords == {i \in 1..Len(sessions) : sessions[i].endTime = Undefined}

\* C14: at every moment at most one record of the ledger is open, that is
\* has no end time.
C14_AtMostOneOpenRecord == Cardinality(OpenRecords) <= 1

\* The snapshot in storage is not the session in memory.
Unpersisted(s, stored) == stored # SavedActive(s)

\* C15: a start, pause or resume whose write of the snapshot to storage has
\* failed, so that storage does not hold the session the call has left in
\* memory, does not report success.
C15_PersistenceFailureIsFatal ==
  [][(/\ IsCall("startSession") \/ IsCall("pauseSession") \/ IsCall("resumeSession")
      /\ activeSession' # None
      /\ activeSession' # activeSession
      /\ Unpersisted(activeSession'[1], storedActive'))
       => lastCall'.threw]_vars

(***************************************************************************)
(* Properties of the notifications.                                        *)
(***************************************************************************)
CompletionsFor(sessionId) == {n \in PendingFor(sessionId) : n.kind = "completion"}

\* C16: scheduling the completion notification again replaces the one
\* scheduled before: a session never has more than one completion
\* notification pending, and while its timer runs the pending one is at the
\* projected completion time, start time plus planned duration.
C16_SingleCompletionPending ==
  \A n \in pending :
    n.kind = "completion"
      => /\ CompletionsFor(n.sessionId) = {n}
         /\ (/\ timerState.isActive /\ ~timerState.isPaused
             /\ timerState.sessionId = n.sessionId
             /\ timerState.startTime # None)
              => n.at = timerState.startTime[1].t
                        + timerState.plannedDuration * MsPerSec

Finalized(id) == sessions[id].endTime = Undefined /\ sessions'[id].endTime # Undefined

\* C17: when a session is completed or cancelled, by whichever path, no
\* scheduled notification for it is left pending.
C17_NoPendingAfterFinish ==
  [][\A id \in 1..Len(sessions) : Finalized(id) => PendingFor(id)' = {}]_vars

RunningAhead ==
  /\ timerState.isActive /\ ~timerState.isPaused
  /\ timerState.startTime # None
  /\ now < timerState.startTime[1].t + timerState.plannedDuration * MsPerSec

\* C21: whenever the application goes to the background with a running
\* timer, a completion notification for the timer's session is pending
\* afterwards, also when the application has been to the background and
\* back before.
C21_BackgroundSafetyNet ==
  [][(lastCall'.op = "background" /\ appState = "active" /\ appState' = "background"
      /\ RunningAhead)
       => CompletionsFor(timerState.sessionId)' # {}]_vars

QueueEntries(stored) == IF stored = None THEN {} ELSE Range(ParseQueue(stored[1]))

\* C28: an entry of the persisted offline queue stays in it until a replay
\* returns that has applied it or found it present in the ledger: no
\* enqueue drops it, after a restart or while a replay is in flight, and no
\* replay drops an entry it has not handled.
C28_QueueDurable ==
  [][\A e \in QueueEntries(storedQueue) :
       \/ e \in QueueEntries(storedQueue')
       \/ /\ lastCall'.op = "processOfflineQueue"
          /\ e \in Range(lastCall'.ret.processed)]_vars

(***************************************************************************)
(* Properties of the system interruptions                                  *)
(***************************************************************************)
\* C23: an interruption signal on a running timer pauses it and records
\* the interruption with the time of the signal; the resumption is offered
\* only when the record is less than one hour old.
C23_InterruptionRecorded ==
  [][/\ (/\ IsCall("handleSystemInterruption")
         /\ timerState.isActive /\ ~timerState.isPaused)
          => /\ timerState'.isPaused
             /\ LoadTimerState' # None /\ LoadTimerState'[1].isPaused
             /\ storedInterruption' # None
             /\ InterruptionTime(storedInterruption'[1]) = now
     /\ (IsCall("recoverFromInterruption") /\ lastCall'.ret)
          => /\ storedInterruption # None
             /\ now - InterruptionTime(storedInterruption[1]) < InterruptionTtlMs]_vars

(***************************************************************************)
(* Properties of the elapsed time                                          *)
(***************************************************************************)
\* C24: while a session is active its elapsed running time does not exceed
\* its planned duration: a session whose time is up has been completed and
\* its snapshot cleared, also when the application was in the background
\* and the interval stopped.
C24_ElapsedWithinPlanned ==
  activeSession # None
    => GetElapsedTime <= activeSession[1].plannedDuration * MsPerSec

(***************************************************************************)
(* Properties of the recovery from a damaged snapshot                      *)
(***************************************************************************)
\* C25: the recovery discards a damaged snapshot: when the stored value
\* cannot be parsed, or gives a negative elapsed time, the recovery ends
\* with no session in memory, none in the facade, the snapshot removed
\* from storage, and reports no session.
C25_CorruptSnapshotDiscarded ==
  [][(/\ IsCall("recoverActiveSession")
      /\ storedActive # None
      /\ Damaged(storedActive[1], now))
       => /\ activeSession' = None
          /\ hkSession' = None
          /\ storedActive' = None
          /\ lastCall'.ret = Undefined]_vars

(***************************************************************************)
(* Properties of the long-break policy                                     *)
(***************************************************************************)
\* The completed long breaks of the ledger, and the work intervals completed
\* after the last of them.
LongBreaksDone(ledger) ==
  {i \in DOMAIN ledger : ledger[i].type = "longBreak" /\ ledger[i].completed}

WorkSinceLongBreak(ledger) ==
  Cardinality({i \in DOMAIN ledger :
                 /\ ledger[i].type = "work" /\ ledger[i].completed
                 /\ \A j \in LongBreaksDone(ledger) : j < i})

\* handleTimerComplete has run for a session of the given type.
HandlerRanFor(type) ==
  /\ completing # None /\ completing[1].sessionType = type
  /\ completing' = None /\ alertNext' # None

\* C26: when handleTimerComplete selects the break after a work interval,
\* it selects a long break if SessionsUntilLongBreak work intervals have
\* been completed since the last completed long break, and a short break
\* otherwise; the completion of a long break sets the consecutive-work
\* counter to zero.
C26_LongBreakPolicy ==
  [][/\ HandlerRanFor("work")
          => sessionType' = IF WorkSinceLongBreak(sessions') >= SessionsUntilLongBreak
                            THEN "longBreak" ELSE "break"
     /\ HandlerRanFor("longBreak") => cycleSessionsCompleted' = 0]_vars

(***************************************************************************)
(* Properties of the pause                                                 *)
(***************************************************************************)
SessionPaused == activeSession # None /\ Truthy(activeSession[1].pausedTime)

TimerPaused == timerState.isActive /\ timerState.isPaused

\* C27: a pause of a session that is paused already, and a pause of a timer
\* that is paused already, raise no error and change nothing: the time of
\* the pause, the accumulated paused duration, the elapsed time, the stored
\* snapshot and the pending notifications are as before the call.
C27_PauseIdempotent ==
  [][/\ (IsCall("pauseSession") /\ SessionPaused)
          => /\ ~lastCall'.threw
             /\ activeSession' = activeSession
             /\ storedActive' = storedActive
             /\ GetElapsedTime' = GetElapsedTime
             /\ pending' = pending
     /\ (IsCall("pauseTimer") /\ TimerPaused)
          => /\ ~lastCall'.threw
             /\ timerState' = timerState
             /\ storedTimer' = storedTimer
             /\ notificationIds' = notificationIds
             /\ pending' = pending]_vars

\* The session was paused, its timer was paused later, a notification is
\* pending, and the last call is a pause of the session: a second one.
C27_Witness ==
  /\ lastCall.op = "pauseSession"
  /\ SessionPaused /\ TimerPaused
  /\ timerState.pausedTime # None
  /\ activeSession[1].pausedTime < timerState.pausedTime[1].t
  /\ activeSession[1].totalPausedDuration > 0
  /\ pending # {}

(***************************************************************************)
(* Properties of the completion handler                                    *)
(***************************************************************************)
WorkRecords == {i \in DOMAIN sessions : sessions[i].type = "work"}

\* C29: handleTimerComplete runs once for a session: no two calls of it
\* wait for the completion of the same session, however many polls of the
\* interval arrive meanwhile, and the count of completed sessions never
\* exceeds the number of work sessions started.
C29_SingleCompletion ==
  /\ \A i, j \in DOMAIN tasks :
       i # j => tasks[i].sessionId # tasks[j].sessionId
  /\ sessionsCompleted <= Cardinality(WorkRecords)

(***************************************************************************)
(* Properties of the completion by the TimerManager                        *)
(***************************************************************************)
\* The running time of the saved timer, in seconds: the clock minus the
\* start time, which resumeTimer has moved by the pauses.
TimerRunSeconds == Floor(now - LoadTimerState[1].startTime[1].t, MsPerSec)

\* C30: when the TimerManager completes a session, from the background task
\* or on the return to the foreground, the actualDuration written to the
\* record is the running time of the timer at that moment.
C30_RealDurationReported ==
  [][\A id \in DOMAIN sessions :
       (/\ IsCall("backgroundUpdate") \/ IsCall("foreground")
        /\ Finalized(id) /\ sessions'[id].completed)
         => sessions'[id].actualDuration = TimerRunSeconds]_vars

====
